---------------------------- MODULE Spec2Model ----------------------------
(***************************************************************************)
(* Episode detection and renaming of the Zip bot: EpisodeDetector          *)
(* (episode_detector.py), its pattern tables (config.py) and the filename  *)
(* helpers (utils.py).  A Python str is a sequence of one-character        *)
(* strings; an Optional[int] is <<>> (None) or <<n>>.                      *)
(***************************************************************************)
EXTENDS Integers, Sequences, FiniteSets, TLC

VARIABLES
    pc,               \* position of the running call: "call", "done", ...
    filename,         \* the str argument of the call
    episode_info,     \* the EpisodeInfo argument of generate_new_filename
    custom_template,  \* the custom_template argument of generate_new_filename
    rename_template,  \* EpisodeDetector.rename_template
    custom_channel,   \* EpisodeDetector.custom_channel
    result,           \* the value the call returned
    filenames,        \* the list argument of get_batch_rename_preview
    detectors,        \* the EpisodeDetector objects: their fields
    user_settings,    \* ZipBot.user_settings
    tracker,          \* the fields of a ProgressTracker
    history,          \* the calls made so far, with what they returned
    text,             \* the text argument of split_message
    max_length,       \* the max_length argument of split_message
    fs                \* the files on disk: what each existing path holds

vars == <<pc, filename, episode_info, custom_template, rename_template,
          custom_channel, result, filenames, detectors, user_settings,
          tracker, history, text, max_length, fs>>

-----------------------------------------------------------------------------
(* Bounds of the model.                                                    *)

\* Names given to _extract_episode_season are made of at most this many pieces.
MaxNamePieces == 3

\* Templates given to generate_new_filename are made of at most this many
\* pieces.
MaxTemplatePieces == 2

\* Strings given to safe_filename have at most this many characters.
MaxSafeLen == 3

\* Filenames given to detect_episode_info are made of at most this many
\* pieces.
MaxFilenamePieces == 3

\* int() and str() raise ValueError for a number of more than this many
\* digits.  The interpreter's limit is 4300 digits
\* (sys.int_info.default_max_str_digits); the model scales it down.
MaxIntDigits == 2

\* Names given to _extract_episode_season where the digit limit counts are
\* made of at most this many pieces.
MaxLongPieces == 2

\* At most this many calls are made on the detectors and commands sent to
\* the bot.
MaxCalls == 3

\* Lists given to get_batch_rename_preview have at most this many names.
MaxBatch == 3

\* Filenames given to FileHandler.detect_episode_number are made of at most
\* this many pieces.
MaxNumberPieces == 3

\* A ProgressTracker is told of at most this many completed files between
\* two calls of start, and is started and sends periodic updates at most
\* MaxUpdates times in all.
MaxFiles == 9
MaxUpdates == 3

\* Longest text handed to split_message, and the largest max_length.
MaxTextLen == 4
MaxChunkLen == 3

\* Calls of rename_with_episode made in one directory.
MaxRenames == 2

\* Pieces a name handed to _extract_quality is put together from.
MaxQualityPieces == 2

\* Pieces a name handed to _extract_show_name is put together from.
MaxShowPieces == 3

\* Pieces of a template with placeholders, misspelt tokens and braces.
MaxTokenPieces == 2

-----------------------------------------------------------------------------
(* Python values.                                                          *)

None == <<>>
Some(n) == <<n>>

\* What the None of an unused variable is in a specification that does not
\* use it.
Unused == "unused"

-----------------------------------------------------------------------------
(* Characters: str.lower, \d and \s of the re module, str.strip.           *)

UpperLetters == <<"A", "B", "C", "D", "E", "F", "G", "H", "I", "J", "K", "L", "M", "N", "O", "P", "Q", "R", "S", "T", "U", "V", "W", "X", "Y", "Z">>
LowerLetters == <<"a", "b", "c", "d", "e", "f", "g", "h", "i", "j", "k", "l", "m", "n", "o", "p", "q", "r", "s", "t", "u", "v", "w", "x", "y", "z">>

Range(f) == {f[i] : i \in DOMAIN f}

\* str.lower of one ASCII character.
ToLower ==
    [c \in Range(UpperLetters) |->
        LowerLetters[CHOOSE i \in 1..26 : UpperLetters[i] = c]]

\* One character under re.IGNORECASE: both sides are compared lower-cased.
Lower(c) == IF c \in DOMAIN ToLower THEN ToLower[c] ELSE c

Digits == <<"0", "1", "2", "3", "4", "5", "6", "7", "8", "9">>
DigitValue == [c \in Range(Digits) |-> (CHOOSE i \in 1..10 : Digits[i] = c) - 1]
IsDigit(c) == c \in DOMAIN DigitValue
DigitVal(c) == DigitValue[c]

\* \s of re on ASCII text, and the characters str.strip() removes.
IsSpace(c) == c \in {" ", "\t", "\n", "\r", "\f"}

\* int(s) of a run of ASCII digits.  Python integers are unbounded, and int
\* raises for no run shorter than the interpreter's limit of 4300 digits.
RECURSIVE int(_)
int(s) ==
    IF s = <<>> THEN 0
    ELSE int(SubSeq(s, 1, Len(s) - 1)) * 10 + DigitVal(s[Len(s)])

\* Length of the longest run of digits (of spaces) of s that starts at i.
RECURSIVE DigitRun(_, _)
DigitRun(s, i) ==
    IF i <= Len(s) /\ IsDigit(s[i]) THEN 1 + DigitRun(s, i + 1) ELSE 0

RECURSIVE SpaceRun(_, _)
SpaceRun(s, i) ==
    IF i <= Len(s) /\ IsSpace(s[i]) THEN 1 + SpaceRun(s, i + 1) ELSE 0

-----------------------------------------------------------------------------
(* Config.EPISODE_PATTERNS.  A pattern is a sequence of elements: "lit", a *)
(* literal character or a class such as [Ss], matched ignoring case;       *)
(* "d", the capturing group (\d+); "ws", \s*.  Literals are written in     *)
(* lower case, the form re.IGNORECASE compares in.                         *)

Lit(c) == [k |-> "lit", c |-> c]
Group == [k |-> "d", c |-> ""]
Ws == [k |-> "ws", c |-> ""]
Lits(s) == [i \in 1..Len(s) |-> Lit(s[i])]

EPISODE_PATTERNS == <<
    <<Lit("s"), Group, Lit("e"), Group>>,
    Lits(<<"s", "e", "a", "s", "o", "n">>) \o <<Ws, Group, Ws>> \o Lits(<<"e", "p", "i", "s", "o", "d", "e">>) \o <<Ws, Group>>,
    <<Group, Lit("x"), Group>>,
    <<Lit("e"), Group>>,
    Lits(<<"e", "p", "i", "s", "o", "d", "e">>) \o <<Ws, Group>>,
    <<Lit("-"), Lit(" "), Group>>,
    <<Lit("_"), Group, Lit("_")>>,
    <<Lit("."), Group, Lit(".")>> >>

\* The backtracking matcher of re: pattern elements j.. against s from
\* position i, with the groups g captured so far.  A greedy element takes
\* the longest run first and gives back one character at a time.  The value
\* is <<>> (no match) or <<groups>>.
RECURSIVE MatchFrom(_, _, _, _, _), Backtrack(_, _, _, _, _, _, _)
MatchFrom(pat, j, s, i, g) ==
    IF j > Len(pat) THEN <<g>>
    ELSE CASE pat[j].k = "lit" ->
                  IF i <= Len(s) /\ Lower(s[i]) = pat[j].c
                  THEN MatchFrom(pat, j + 1, s, i + 1, g)
                  ELSE <<>>
           [] pat[j].k = "d" -> Backtrack(pat, j, s, i, g, DigitRun(s, i), 1)
           [] pat[j].k = "ws" -> Backtrack(pat, j, s, i, g, SpaceRun(s, i), 0)

Backtrack(pat, j, s, i, g, n, least) ==
    IF n < least THEN <<>>
    ELSE LET g2 == IF pat[j].k = "d" THEN Append(g, SubSeq(s, i, i + n - 1))
                   ELSE g
             m == MatchFrom(pat, j + 1, s, i + n, g2)
         IN  IF m # <<>> THEN m
             ELSE Backtrack(pat, j, s, i, g, n - 1, least)

\* re.search(pattern, s, re.IGNORECASE): the match at the leftmost position
\* that has one; <<>> or <<match.groups()>>.
RECURSIVE SearchFrom(_, _, _)
SearchFrom(pat, s, i) ==
    IF i > Len(s) + 1 THEN <<>>
    ELSE LET m == MatchFrom(pat, 1, s, i, <<>>)
         IN  IF m # <<>> THEN m ELSE SearchFrom(pat, s, i + 1)

re_search(pat, s) == SearchFrom(pat, s, 1)

\* re.findall(r'\d+', s): the maximal digit runs of s, left to right.
RECURSIVE FindDigitRuns(_, _)
FindDigitRuns(s, i) ==
    IF i > Len(s) THEN <<>>
    ELSE LET n == DigitRun(s, i)
         IN  IF n = 0 THEN FindDigitRuns(s, i + 1)
             ELSE <<SubSeq(s, i, i + n - 1)>> \o FindDigitRuns(s, i + n)

re_findall_digits(s) == FindDigitRuns(s, 1)

-----------------------------------------------------------------------------
(* EpisodeDetector._extract_episode_season                                 *)

\* FromGroups with the two groups of a match exchanged.
FromGroups_Swapped(groups) ==
    IF Len(groups) = 2
    THEN <<Some(int(groups[2])), Some(int(groups[1]))>>
    ELSE <<Some(1), Some(int(groups[1]))>>

\* What a match returns: (season, episode) of a two-group pattern, season 1
\* of a one-group pattern.  int() of a captured \d+ group does not raise.
FromGroups(groups) ==
    IF Len(groups) = 2
    THEN <<Some(int(groups[1])), Some(int(groups[2]))>>
    ELSE <<Some(1), Some(int(groups[1]))>>

\* DigitFallback taking the first number sequence instead of the last.
DigitFallback_First(name) ==
    LET numbers == re_findall_digits(name)
    IN  IF numbers # <<>>
        THEN <<Some(1), Some(int(numbers[1]))>>
        ELSE <<None, None>>

\* DigitFallback giving season 1 to a name without any number.
DigitFallback_Default(name) ==
    LET numbers == re_findall_digits(name)
    IN  IF numbers # <<>>
        THEN <<Some(1), Some(int(numbers[Len(numbers)]))>>
        ELSE <<Some(1), None>>

\* No pattern matched: the last number sequence of the name, if any.
DigitFallback(name) ==
    LET numbers == re_findall_digits(name)
    IN  IF numbers # <<>>
        THEN <<Some(1), Some(int(numbers[Len(numbers)]))>>
        ELSE <<None, None>>

\* The loop over the pattern list from pattern p on: the first pattern that
\* matches returns.
RECURSIVE ExtractLoop(_, _, _)
ExtractLoop(patterns, name, p) ==
    IF p > Len(patterns) THEN DigitFallback(name)
    ELSE LET match == re_search(patterns[p], name)
         IN  IF match # <<>> THEN FromGroups(match[1])
             ELSE ExtractLoop(patterns, name, p + 1)

Reverse(seq) == [i \in 1..Len(seq) |-> seq[Len(seq) + 1 - i]]

\* The loop run over the pattern list from its last pattern to its first.
_extract_episode_season_Reversed(name) ==
    ExtractLoop(Reverse(EPISODE_PATTERNS), name, 1)

_extract_episode_season(name) == ExtractLoop(EPISODE_PATTERNS, name, 1)

-----------------------------------------------------------------------------
(* The names the detector is called with: every concatenation of at most   *)
(* MaxNamePieces pieces (single characters and whole tokens).              *)

NamePieces == {
    <<"S">>, <<"e">>, <<"x">>, <<"-">>, <<" ">>, <<"_">>, <<".">>, <<"0">>, <<"1">>, <<"2">>,
    <<"S", "0", "1", "E", "0", "2">>, <<"s", "2", "e", "1", "0">>, <<"S", "e", "a", "s", "o", "n", " ", "1", " ", "E", "p", "i", "s", "o", "d", "e", " ", "3">>, <<"2", "x", "1", "0">>,
    <<"E", "p", "i", "s", "o", "d", "e", " ", "1", "2">>, <<"e", "p", "i", "s", "o", "d", "e">> }

RECURSIVE Concat(_)
Concat(ps) == IF ps = <<>> THEN <<>> ELSE ps[1] \o Concat(Tail(ps))

PieceSeqs(pieces, n) == UNION {[1..k -> pieces] : k \in 0..n}

Names == {Concat(ps) : ps \in PieceSeqs(NamePieces, MaxNamePieces)}

-----------------------------------------------------------------------------
(* Specification SpecEpisode: one call of _extract_episode_season.         *)

InitEpisode ==
    /\ pc = "call"
    /\ filename \in Names
    /\ episode_info = Unused
    /\ custom_template = Unused
    /\ rename_template = Unused
    /\ custom_channel = Unused
    /\ result = Unused
    /\ filenames = Unused
    /\ detectors = Unused
    /\ user_settings = Unused
    /\ tracker = Unused
    /\ history = Unused
    /\ text = Unused
    /\ max_length = Unused
    /\ fs = Unused

ExtractEpisodeSeason ==
    /\ pc = "call"
    /\ result' = _extract_episode_season(filename)
    /\ pc' = "done"
    /\ UNCHANGED <<filename, episode_info, custom_template, rename_template,
                   custom_channel, filenames, detectors, user_settings,
                   tracker, history, text, max_length, fs>>

NextEpisode == ExtractEpisodeSeason

SpecEpisode == InitEpisode /\ [][NextEpisode]_vars

-----------------------------------------------------------------------------
(* str methods used by generate_new_filename and safe_filename.            *)

\* str(n) of an integer n >= 0.
RECURSIVE str(_)
str(n) ==
    IF n < 10 THEN <<Digits[n + 1]>>
    ELSE str(n \div 10) \o <<Digits[(n % 10) + 1]>>

\* A padding that also cuts a longer string to the width.
RECURSIVE zfill_Truncating(_, _)
zfill_Truncating(s, width) ==
    IF Len(s) > width THEN SubSeq(s, 1, width)
    ELSE IF Len(s) = width THEN s
    ELSE zfill_Truncating(<<"0">> \o s, width)

\* s.zfill(width) of a string without a sign.
RECURSIVE zfill(_, _)
zfill(s, width) ==
    IF Len(s) >= width THEN s ELSE zfill(<<"0">> \o s, width)

\* s.endswith(suffix)
endswith(s, suffix) ==
    /\ Len(s) >= Len(suffix)
    /\ SubSeq(s, Len(s) - Len(suffix) + 1, Len(s)) = suffix

\* s.find(old, i): the first position >= i at which old occurs in s, 0 when
\* there is none.
find(s, old, i) ==
    LET at == {k \in i..(Len(s) - Len(old) + 1) :
                  s[k] = old[1] /\ SubSeq(s, k, k + Len(old) - 1) = old}
    IN  IF at = {} THEN 0 ELSE CHOOSE k \in at : \A m \in at : k <= m

\* s.replace(old, new) for a non-empty old: the occurrences of old, found
\* left to right without overlap, from position i on.
RECURSIVE ReplaceFrom(_, _, _, _)
ReplaceFrom(s, old, new, i) ==
    LET k == find(s, old, i)
    IN  IF k = 0 THEN SubSeq(s, i, Len(s))
        ELSE SubSeq(s, i, k - 1) \o new
                 \o ReplaceFrom(s, old, new, k + Len(old))

replace(s, old, new) == ReplaceFrom(s, old, new, 1)

\* s.strip(): the leading and the trailing whitespace removed.
RECURSIVE lstrip(_)
lstrip(s) == IF s # <<>> /\ IsSpace(s[1]) THEN lstrip(Tail(s)) ELSE s

RECURSIVE rstrip(_)
rstrip(s) ==
    IF s # <<>> /\ IsSpace(s[Len(s)])
    THEN rstrip(SubSeq(s, 1, Len(s) - 1))
    ELSE s

strip(s) == rstrip(lstrip(s))

-----------------------------------------------------------------------------
(* utils.safe_filename                                                     *)

invalid_chars == <<"<", ">", ":", "\"", "/", "\\", "|", "?", "*">>

\* for char in invalid_chars[n..]: filename = filename.replace(char, '_')
\* (an empty filename stays empty whatever is replaced).
RECURSIVE ReplaceInvalid(_, _)
ReplaceInvalid(s, n) ==
    IF n > Len(invalid_chars) \/ s = <<>> THEN s
    ELSE ReplaceInvalid(replace(s, <<invalid_chars[n]>>, <<"_">>), n + 1)

\* safe_filename removing one whitespace character at each end only.
safe_filename_StripOne(s) ==
    LET r == ReplaceInvalid(s, 1)
        l == IF r # <<>> /\ IsSpace(r[1]) THEN Tail(r) ELSE r
    IN  IF l # <<>> /\ IsSpace(l[Len(l)]) THEN SubSeq(l, 1, Len(l) - 1)
        ELSE l

safe_filename(s) == strip(ReplaceInvalid(s, 1))

-----------------------------------------------------------------------------
(* Config.DEFAULT_RENAME_TEMPLATE and EpisodeDetector.generate_new_filename *)

DEFAULT_RENAME_TEMPLATE ==
    <<"[", "S", "{", "S", "e", "a", "s", "o", "n", "}", " ", "-", " ", "E", "{", "E", "p", "i", "s", "o", "d", "e", "}", "]", " ", "{", "S", "h", "o", "w", "N", "a", "m", "e", "}", " ", "[", "{", "Q", "u", "a", "l", "i", "t", "y", "}", "]", " ", "[", "{", "A", "u", "d", "i", "o", "}", "]", " ", "@", "{", "C", "h", "a", "n", "n", "e", "l", "}", ".", "{", "E", "x", "t", "e", "n", "s", "i", "o", "n", "}">>

\* `x or default` of an Optional[int] and of a str.
IntOr(x, default) == IF x = None \/ x = Some(0) THEN default ELSE x[1]
StrOr(x, default) == IF x = <<>> THEN default ELSE x

\* replacements with "Unknown" as the default of the show name too.
replacements_ShortShow(info, channel) == <<
    <<<<"S", "e", "a", "s", "o", "n">>, zfill(str(IntOr(info.season, 1)), 2)>>,
    <<<<"E", "p", "i", "s", "o", "d", "e">>, zfill(str(IntOr(info.episode, 1)), 2)>>,
    <<<<"S", "h", "o", "w", "N", "a", "m", "e">>, StrOr(info.show_name, <<"U", "n", "k", "n", "o", "w", "n">>)>>,
    <<<<"Q", "u", "a", "l", "i", "t", "y">>, StrOr(info.quality, <<"U", "n", "k", "n", "o", "w", "n">>)>>,
    <<<<"A", "u", "d", "i", "o">>, StrOr(info.audio, <<"U", "n", "k", "n", "o", "w", "n">>)>>,
    <<<<"C", "h", "a", "n", "n", "e", "l">>, StrOr(channel, <<"U", "n", "k", "n", "o", "w", "n">>)>>,
    <<<<"E", "x", "t", "e", "n", "s", "i", "o", "n">>, StrOr(info.extension, <<".", "m", "k", "v">>)>> >>

\* The replacements dict, in its insertion order, as <<key, value>> pairs.
replacements(info, channel) == <<
    <<<<"S", "e", "a", "s", "o", "n">>, zfill(str(IntOr(info.season, 1)), 2)>>,
    <<<<"E", "p", "i", "s", "o", "d", "e">>, zfill(str(IntOr(info.episode, 1)), 2)>>,
    <<<<"S", "h", "o", "w", "N", "a", "m", "e">>, StrOr(info.show_name, <<"U", "n", "k", "n", "o", "w", "n", " ", "S", "h", "o", "w">>)>>,
    <<<<"Q", "u", "a", "l", "i", "t", "y">>, StrOr(info.quality, <<"U", "n", "k", "n", "o", "w", "n">>)>>,
    <<<<"A", "u", "d", "i", "o">>, StrOr(info.audio, <<"U", "n", "k", "n", "o", "w", "n">>)>>,
    <<<<"C", "h", "a", "n", "n", "e", "l">>, StrOr(channel, <<"U", "n", "k", "n", "o", "w", "n">>)>>,
    <<<<"E", "x", "t", "e", "n", "s", "i", "o", "n">>, StrOr(info.extension, <<".", "m", "k", "v">>)>> >>

\* for key, value in replacements.items(), from entry n on:
\*     new_filename = new_filename.replace('{key}', value)
\* (an empty new_filename stays empty whatever is replaced).
\* A loop that replaces only the first occurrence of each placeholder.
RECURSIVE ReplacePlaceholders_First(_, _, _)
ReplacePlaceholders_First(s, repl, n) ==
    IF n > Len(repl) \/ s = <<>> THEN s
    ELSE LET old == <<"{">> \o repl[n][1] \o <<"}">>
             k == find(s, old, 1)
         IN  ReplacePlaceholders_First(
                 IF k = 0 THEN s
                 ELSE SubSeq(s, 1, k - 1) \o repl[n][2]
                          \o SubSeq(s, k + Len(old), Len(s)),
                 repl, n + 1)

\* A loop that takes the entries from the last to entry n.
RECURSIVE ReplacePlaceholders_Backwards(_, _, _)
ReplacePlaceholders_Backwards(s, repl, n) ==
    IF n > Len(repl) \/ s = <<>> THEN s
    ELSE replace(ReplacePlaceholders_Backwards(s, repl, n + 1),
                 <<"{">> \o repl[n][1] \o <<"}">>, repl[n][2])

RECURSIVE ReplacePlaceholders(_, _, _)
ReplacePlaceholders(s, repl, n) ==
    IF n > Len(repl) \/ s = <<>> THEN s
    ELSE ReplacePlaceholders(
             replace(s, <<"{">> \o repl[n][1] \o <<"}">>, repl[n][2]),
             repl, n + 1)

\* StripExtensionSuffix cutting 11 characters, one too few.
StripExtensionSuffix_Short(template) ==
    IF endswith(template, <<".", "{", "E", "x", "t", "e", "n", "s", "i", "o", "n", "}">>)
    THEN SubSeq(template, 1, Len(template) - 11)
    ELSE template

\* template[:-12] when the template ends with '.{Extension}'
StripExtensionSuffix(template) ==
    IF endswith(template, <<".", "{", "E", "x", "t", "e", "n", "s", "i", "o", "n", "}">>)
    THEN SubSeq(template, 1, Len(template) - 12)
    ELSE template

\* generate_new_filename(episode_info, custom_template) of a detector whose
\* fields are rename and channel.  custom is None or Some(str).
generate_new_filename(info, custom, rename, channel) ==
    LET template == IF custom = None \/ custom = Some(<<>>) THEN rename
                    ELSE custom[1]
        repl == replacements(info, channel)
        new_filename == ReplacePlaceholders(StripExtensionSuffix(template),
                                            repl, 1)
    IN  safe_filename(new_filename \o repl[7][2])

-----------------------------------------------------------------------------
(* The arguments generate_new_filename is called with.                     *)

TemplatePieces == {
    <<"{", "S", "e", "a", "s", "o", "n", "}">>, <<"{", "E", "p", "i", "s", "o", "d", "e", "}">>, <<"{", "S", "h", "o", "w", "N", "a", "m", "e", "}">>, <<"{", "Q", "u", "a", "l", "i", "t", "y", "}">>, <<"{", "A", "u", "d", "i", "o", "}">>,
    <<"{", "C", "h", "a", "n", "n", "e", "l", "}">>, <<".", "{", "E", "x", "t", "e", "n", "s", "i", "o", "n", "}">>, <<" ">>, <<"<">> }

ExampleTemplate == <<"[", "S", "{", "S", "e", "a", "s", "o", "n", "}", " ", "-", " ", "E", "{", "E", "p", "i", "s", "o", "d", "e", "}", "]", " ", "{", "S", "h", "o", "w", "N", "a", "m", "e", "}", ".", "{", "E", "x", "t", "e", "n", "s", "i", "o", "n", "}">>

CustomTemplates ==
    {None, Some(ExampleTemplate)}
        \cup {Some(Concat(ps)) :
                ps \in PieceSeqs(TemplatePieces, MaxTemplatePieces)}

EpisodeNumbers == {None} \cup {Some(n) : n \in {0, 1, 7, 9, 10, 123}}

EpisodeInfo(season, episode, show_name, quality, audio, extension) ==
    [season |-> season, episode |-> episode, show_name |-> show_name,
     quality |-> quality, audio |-> audio, original_filename |-> <<>>,
     extension |-> extension]

\* Records that differ in their numbers, and records that differ in their
\* strings (absent, given, whitespace).
EpisodeInfos ==
    {EpisodeInfo(s, e, <<"D", "e", "m", "o">>, <<>>, <<>>, <<".", "m", "k", "v">>) :
        s \in EpisodeNumbers, e \in EpisodeNumbers}
    \cup
    {EpisodeInfo(None, None, n, q, a, x) :
        n \in {<<>>, <<"D", "e", "m", "o">>, <<" ">>}, q \in {<<>>, <<"H", "D">>},
        a \in {<<>>, <<"A", "A", "C">>}, x \in {<<>>, <<".", "m", "k", "v">>, <<" ">>}}

-----------------------------------------------------------------------------
(* Specification SpecGenerate: one call of generate_new_filename on a      *)
(* newly constructed EpisodeDetector.                                      *)

InitGenerate ==
    /\ pc = "call"
    /\ filename = Unused
    /\ episode_info \in EpisodeInfos
    /\ custom_template \in CustomTemplates
    /\ rename_template = DEFAULT_RENAME_TEMPLATE
    /\ custom_channel = <<>>
    /\ result = Unused
    /\ filenames = Unused
    /\ detectors = Unused
    /\ user_settings = Unused
    /\ tracker = Unused
    /\ history = Unused
    /\ text = Unused
    /\ max_length = Unused
    /\ fs = Unused

GenerateNewFilename ==
    /\ pc = "call"
    /\ result' = generate_new_filename(episode_info, custom_template,
                                       rename_template, custom_channel)
    /\ pc' = "done"
    /\ UNCHANGED <<filename, episode_info, custom_template, rename_template,
                   custom_channel, filenames, detectors, user_settings,
                   tracker, history, text, max_length, fs>>

NextGenerate == GenerateNewFilename

SpecGenerate == InitGenerate /\ [][NextGenerate]_vars

-----------------------------------------------------------------------------
(* Specification SpecSafe: safe_filename called on a string, then on what  *)
(* it returned.  result holds the values returned so far.                  *)

SafeChars == Range(invalid_chars) \cup {" ", "\t", "a", "_"}

SafeInputs == UNION {[1..n -> SafeChars] : n \in 0..MaxSafeLen}

InitSafe ==
    /\ pc = "call"
    /\ filename \in SafeInputs
    /\ episode_info = Unused
    /\ custom_template = Unused
    /\ rename_template = Unused
    /\ custom_channel = Unused
    /\ result = <<>>
    /\ filenames = Unused
    /\ detectors = Unused
    /\ user_settings = Unused
    /\ tracker = Unused
    /\ history = Unused
    /\ text = Unused
    /\ max_length = Unused
    /\ fs = Unused

SafeFilename ==
    /\ pc = "call"
    /\ result' = <<safe_filename(filename)>>
    /\ pc' = "once"
    /\ UNCHANGED <<filename, episode_info, custom_template, rename_template,
                   custom_channel, filenames, detectors, user_settings,
                   tracker, history, text, max_length, fs>>

SafeFilenameAgain ==
    /\ pc = "once"
    /\ result' = Append(result, safe_filename(result[1]))
    /\ pc' = "twice"
    /\ UNCHANGED <<filename, episode_info, custom_template, rename_template,
                   custom_channel, filenames, detectors, user_settings,
                   tracker, history, text, max_length, fs>>

NextSafe == SafeFilename \/ SafeFilenameAgain

SpecSafe == InitSafe /\ [][NextSafe]_vars

-----------------------------------------------------------------------------
(* Properties of _extract_episode_season, stated on the text of the name.  *)

DigitChars == {"0", "1", "2", "3", "4", "5", "6", "7", "8", "9"}

AllDigits(s, a, b) == a <= b /\ \A n \in a..b : s[n] \in DigitChars

HasDigit(s) == \E n \in 1..Len(s) : s[n] \in DigitChars

\* The number a run of decimal digits denotes.
RECURSIVE DecimalAcc(_, _)
DecimalAcc(ds, acc) ==
    IF ds = <<>> THEN acc
    ELSE DecimalAcc(Tail(ds),
                    acc * 10 + CHOOSE v \in 0..9 : Digits[v + 1] = Head(ds))

Decimal(ds) == DecimalAcc(ds, 0)

\* s[i..k] is a token S<digits>E<digits>, E at j, the episode digits running
\* to the end of their run.
SxxEyy(s, i, j, k) ==
    /\ s[i] \in {"S", "s"}
    /\ AllDigits(s, i + 1, j - 1)
    /\ s[j] \in {"E", "e"}
    /\ AllDigits(s, j + 1, k)
    /\ k = Len(s) \/ s[k + 1] \notin DigitChars

SxxEyyAt(s, i) ==
    \E j \in (i + 2)..Len(s) : \E k \in (j + 1)..Len(s) : SxxEyy(s, i, j, k)

\* Pattern p matches s at position i; it matches somewhere in s.
MatchesAt(p, s, i) == MatchFrom(EPISODE_PATTERNS[p], 1, s, i, <<>>) # <<>>
Matches(p, s) == \E i \in 1..Len(s) : MatchesAt(p, s, i)
NoPatternMatches(s) == \A p \in 1..Len(EPISODE_PATTERNS) : ~Matches(p, s)

\* (season, episode) that the groups of one match denote.
Captured(groups) ==
    IF Len(groups) = 2
    THEN <<Some(Decimal(groups[1])), Some(Decimal(groups[2]))>>
    ELSE <<Some(1), Some(Decimal(groups[1]))>>

\* s[a..b] is the last maximal run of digits of s.
LastDigitRun(s, a, b) ==
    /\ AllDigits(s, a, b)
    /\ a = 1 \/ s[a - 1] \notin DigitChars
    /\ \A n \in (b + 1)..Len(s) : s[n] \notin DigitChars

\* C1: a name that contains a token S<digits>E<digits>, in any case, gives
\* exactly the season and the episode of the leftmost such token, whatever
\* other digit runs the name has.
C1_SxxEyyWins ==
    pc = "done" =>
        \A i \in 1..Len(filename) :
            (SxxEyyAt(filename, i)
             /\ \A h \in 1..(i - 1) : ~SxxEyyAt(filename, h)) =>
                \A j \in (i + 2)..Len(filename) :
                    \A k \in (j + 1)..Len(filename) :
                        SxxEyy(filename, i, j, k) =>
                            result = <<Some(Decimal(SubSeq(filename, i + 1, j - 1))),
                                       Some(Decimal(SubSeq(filename, j + 1, k)))>>

\* C1 witness: the leftmost token has a digit before it and a digit run
\* after it, and the call returned the token's numbers.
C1_Witness ==
    /\ pc = "done"
    /\ \E i \in 2..Len(filename) :
         \E j \in (i + 2)..Len(filename) :
           \E k \in (j + 1)..(Len(filename) - 2) :
             /\ SxxEyy(filename, i, j, k)
             /\ \A h \in 1..(i - 1) : ~SxxEyyAt(filename, h)
             /\ \E n \in 1..(i - 1) : filename[n] \in DigitChars
             /\ \E n \in (k + 2)..Len(filename) : filename[n] \in DigitChars
             /\ result = <<Some(Decimal(SubSeq(filename, i + 1, j - 1))),
                           Some(Decimal(SubSeq(filename, j + 1, k)))>>

\* C2: the result is that of the lowest-numbered pattern that matches
\* anywhere in the name, taken from its own leftmost match alone, wherever
\* the later patterns match.
C2_FirstPatternWins ==
    pc = "done" =>
        \A p \in 1..Len(EPISODE_PATTERNS) :
            (Matches(p, filename)
             /\ \A q \in 1..(p - 1) : ~Matches(q, filename)) =>
                \E i \in 1..Len(filename) :
                    /\ MatchesAt(p, filename, i)
                    /\ \A h \in 1..(i - 1) : ~MatchesAt(p, filename, h)
                    /\ result =
                         Captured(MatchFrom(EPISODE_PATTERNS[p], 1, filename,
                                            i, <<>>)[1])

\* C2 witness: the winning pattern matches later in the name than a
\* higher-numbered pattern does, and the two give different results.
C2_Witness ==
    /\ pc = "done"
    /\ \E p \in 1..Len(EPISODE_PATTERNS) :
         /\ Matches(p, filename)
         /\ \A q \in 1..(p - 1) : ~Matches(q, filename)
         /\ \E q \in (p + 1)..Len(EPISODE_PATTERNS) :
              \E i \in 1..Len(filename) :
                /\ MatchesAt(q, filename, i)
                /\ \A h \in 1..i : ~MatchesAt(p, filename, h)
                /\ result # Captured(MatchFrom(EPISODE_PATTERNS[q], 1,
                                               filename, i, <<>>)[1])

\* C3: a name with a digit that matches none of the eight patterns gives
\* season 1 and the value of its last digit run as the episode.
C3_LastDigitRun ==
    (pc = "done" /\ HasDigit(filename) /\ NoPatternMatches(filename)) =>
        \A a \in 1..Len(filename) :
            \A b \in a..Len(filename) :
                LastDigitRun(filename, a, b) =>
                    result = <<Some(1), Some(Decimal(SubSeq(filename, a, b)))>>

\* C3 witness: no pattern matches a name with two digit runs of different
\* values, and the call returned the last one.
C3_Witness ==
    /\ pc = "done"
    /\ NoPatternMatches(filename)
    /\ \E a \in 3..Len(filename) :
         \E b \in a..Len(filename) :
           /\ LastDigitRun(filename, a, b)
           /\ \E n \in 1..(a - 2) :
                /\ filename[n] \in DigitChars
                /\ Decimal(<<filename[n]>>) # Decimal(SubSeq(filename, a, b))
           /\ result = <<Some(1), Some(Decimal(SubSeq(filename, a, b)))>>

\* C4: a name without any digit, the empty name included, gives
\* (None, None).
C4_NoDigitNone ==
    (pc = "done" /\ ~HasDigit(filename)) => result = <<None, None>>

\* C4 witness: a name without digits that holds the letters of the
\* patterns was given and (None, None) returned.
C4_Witness ==
    /\ pc = "done"
    /\ ~HasDigit(filename)
    /\ \E n \in 1..Len(filename) : filename[n] \in {"S", "s"}
    /\ \E n \in 1..Len(filename) : filename[n] \in {"E", "e"}
    /\ result = <<None, None>>

-----------------------------------------------------------------------------
(* Properties of generate_new_filename, stated on the returned text.       *)

InvalidChars == {"<", ">", ":", "\"", "/", "\\", "|", "?", "*"}

\* The template the call works on: the detector's when none is passed.
TemplateUsed ==
    IF custom_template = None \/ custom_template = Some(<<>>)
    THEN rename_template
    ELSE custom_template[1]

\* The extension the call appends.
ExtensionUsed ==
    IF episode_info.extension = <<>> THEN <<".", "m", "k", "v">>
    ELSE episode_info.extension

\* The result without the extension appended to it.
ResultBody == SubSeq(result, 1, Len(result) - Len(ExtensionUsed))

\* ds is n zero-padded to two digits: "0n" for n < 10, else the decimal
\* digits of n in full.
ZeroPadded(ds, n) ==
    /\ Len(ds) >= 2
    /\ AllDigits(ds, 1, Len(ds))
    /\ Len(ds) > 2 => ds[1] # "0"
    /\ Decimal(ds) = n

\* s contains the text t.
Contains(s, t) ==
    \E k \in 1..(Len(s) - Len(t) + 1) : SubSeq(s, k, k + Len(t) - 1) = t

\* C5: every call returns a non-empty string without any of the characters
\* < > : " / \ | ? *.
C5_TotalNonEmptySafe ==
    pc = "done" =>
        /\ result # <<>>
        /\ \A n \in 1..Len(result) : result[n] \notin InvalidChars

C7_ZeroPadding ==
    (pc = "done" /\ episode_info.extension = <<".", "m", "k", "v">>) =>
        /\ (/\ custom_template = Some(<<"{", "S", "e", "a", "s", "o", "n", "}">>)
            /\ episode_info.season # None
            /\ episode_info.season[1] >= 1) =>
                /\ endswith(result, <<".", "m", "k", "v">>)
                /\ ZeroPadded(ResultBody, episode_info.season[1])
        /\ (/\ custom_template = Some(<<"{", "E", "p", "i", "s", "o", "d", "e", "}">>)
            /\ episode_info.episode # None
            /\ episode_info.episode[1] >= 1) =>
                /\ endswith(result, <<".", "m", "k", "v">>)
                /\ ZeroPadded(ResultBody, episode_info.episode[1])
        /\ (/\ custom_template = Some(<<"{", "S", "e", "a", "s", "o", "n", "}", "{", "E", "p", "i", "s", "o", "d", "e", "}">>)
            /\ episode_info.season # None
            /\ episode_info.season[1] >= 1
            /\ episode_info.episode # None
            /\ episode_info.episode[1] >= 1) =>
                /\ endswith(result, <<".", "m", "k", "v">>)
                /\ \E k \in 2..(Len(ResultBody) - 2) :
                     /\ ZeroPadded(SubSeq(ResultBody, 1, k),
                                   episode_info.season[1])
                     /\ ZeroPadded(SubSeq(ResultBody, k + 1, Len(ResultBody)),
                                   episode_info.episode[1])

\* C7 witness: season 7 and episode 123 rendered as "07" and "123".
C7_Witness ==
    /\ pc = "done"
    /\ custom_template = Some(<<"{", "S", "e", "a", "s", "o", "n", "}", "{", "E", "p", "i", "s", "o", "d", "e", "}">>)
    /\ episode_info.season = Some(7)
    /\ episode_info.episode = Some(123)
    /\ result = <<"0", "7", "1", "2", "3", ".", "m", "k", "v">>

\* C8: an episode that is present, 0 included, is rendered as that value
\* zero-padded to two digits; 1 stands in only for an absent episode.
C8_PresentEpisodeRendered ==
    (/\ pc = "done"
     /\ custom_template = Some(<<"{", "E", "p", "i", "s", "o", "d", "e", "}">>)
     /\ episode_info.extension = <<".", "m", "k", "v">>
     /\ episode_info.episode # None) =>
        /\ endswith(result, <<".", "m", "k", "v">>)
        /\ ZeroPadded(ResultBody, episode_info.episode[1])

\* C9: every missing field gets its default: "01" for season and episode,
\* "Unknown Show", "Unknown" for quality, audio and channel, ".mkv"; the
\* all-default record under the default template gives
\* "[S01 - E01] Unknown Show [Unknown] [Unknown] @Unknown.mkv".
C9_Defaults ==
    (pc = "done" /\ custom_channel = <<>>) =>
        /\ episode_info.extension = <<>> => endswith(result, <<".", "m", "k", "v">>)
        /\ (/\ TemplateUsed = DEFAULT_RENAME_TEMPLATE
            /\ episode_info = EpisodeInfo(None, None, <<>>, <<>>, <<>>, <<>>))
                => result =
                     <<"[", "S", "0", "1", " ", "-", " ", "E", "0", "1", "]", " ", "U", "n", "k", "n", "o", "w", "n", " ", "S", "h", "o", "w", " ", "[", "U", "n", "k", "n", "o", "w", "n", "]", " ", "[", "U", "n", "k", "n", "o", "w", "n", "]", " ", "@", "U", "n", "k", "n", "o", "w", "n", ".", "m", "k", "v">>
        /\ episode_info.extension \in {<<>>, <<".", "m", "k", "v">>} =>
            /\ (custom_template = Some(<<"{", "S", "e", "a", "s", "o", "n", "}">>)
                /\ episode_info.season = None) => result = <<"0", "1", ".", "m", "k", "v">>
            /\ (custom_template = Some(<<"{", "E", "p", "i", "s", "o", "d", "e", "}">>)
                /\ episode_info.episode = None) => result = <<"0", "1", ".", "m", "k", "v">>
            /\ (custom_template = Some(<<"{", "S", "h", "o", "w", "N", "a", "m", "e", "}">>)
                /\ episode_info.show_name = <<>>)
                    => result = <<"U", "n", "k", "n", "o", "w", "n", " ", "S", "h", "o", "w", ".", "m", "k", "v">>
            /\ (custom_template = Some(<<"{", "Q", "u", "a", "l", "i", "t", "y", "}">>)
                /\ episode_info.quality = <<>>) => result = <<"U", "n", "k", "n", "o", "w", "n", ".", "m", "k", "v">>
            /\ (custom_template = Some(<<"{", "A", "u", "d", "i", "o", "}">>)
                /\ episode_info.audio = <<>>) => result = <<"U", "n", "k", "n", "o", "w", "n", ".", "m", "k", "v">>
            /\ custom_template = Some(<<"{", "C", "h", "a", "n", "n", "e", "l", "}">>)
                    => result = <<"U", "n", "k", "n", "o", "w", "n", ".", "m", "k", "v">>

\* C9 witness: the all-default record under the default template.
C9_Witness ==
    /\ pc = "done"
    /\ custom_template = None
    /\ rename_template = DEFAULT_RENAME_TEMPLATE
    /\ custom_channel = <<>>
    /\ episode_info = EpisodeInfo(None, None, <<>>, <<>>, <<>>, <<>>)
    /\ result = <<"[", "S", "0", "1", " ", "-", " ", "E", "0", "1", "]", " ", "U", "n", "k", "n", "o", "w", "n", " ", "S", "h", "o", "w", " ", "[", "U", "n", "k", "n", "o", "w", "n", "]", " ", "[", "U", "n", "k", "n", "o", "w", "n", "]", " ", "@", "U", "n", "k", "n", "o", "w", "n", ".", "m", "k", "v">>

-----------------------------------------------------------------------------
(* Properties of safe_filename.                                            *)

\* C10: safe_filename applied to what safe_filename returned gives it back
\* unchanged.
C10_SafeIdempotent == pc = "twice" => result[2] = result[1]

\* C10 witness: a string with an invalid character and whitespace at both
\* ends was changed by the first call and left alone by the second.
C10_Witness ==
    /\ pc = "twice"
    /\ Len(filename) >= 3
    /\ IsSpace(filename[1])
    /\ IsSpace(filename[Len(filename)])
    /\ \E n \in 1..Len(filename) : filename[n] \in InvalidChars
    /\ result[1] # filename
    /\ result[2] = result[1]

-----------------------------------------------------------------------------
(* More of str and os.path: str.upper, str.title, os.path.splitext.        *)

\* str.upper of one ASCII character.
ToUpper ==
    [c \in Range(LowerLetters) |->
        UpperLetters[CHOOSE i \in 1..26 : LowerLetters[i] = c]]

Upper(c) == IF c \in DOMAIN ToUpper THEN ToUpper[c] ELSE c

IsLetter(c) == c \in DOMAIN ToUpper \/ c \in DOMAIN ToLower

lower(s) == [i \in 1..Len(s) |-> Lower(s[i])]
upper(s) == [i \in 1..Len(s) |-> Upper(s[i])]

\* s.title(): a letter that follows no letter is upper-cased, every other
\* letter is lower-cased.
title(s) ==
    [i \in 1..Len(s) |->
        IF i = 1 \/ ~IsLetter(s[i - 1]) THEN Upper(s[i]) ELSE Lower(s[i])]

\* s.rfind(c): the last position of the character c in s, 0 when there is
\* none.
rfind(s, c) ==
    LET at == {k \in 1..Len(s) : s[k] = c}
    IN  IF at = {} THEN 0 ELSE CHOOSE k \in at : \A m \in at : m <= k

\* os.path.splitext(p): <<root, ext>>.  The extension starts at the last dot
\* of the last path component, unless only dots precede that dot there.
splitext(p) ==
    LET sepIndex == rfind(p, "/")
        dotIndex == rfind(p, ".")
    IN  IF /\ dotIndex > sepIndex
           /\ \E k \in (sepIndex + 1)..(dotIndex - 1) : p[k] # "."
        THEN <<SubSeq(p, 1, dotIndex - 1), SubSeq(p, dotIndex, Len(p))>>
        ELSE <<p, <<>>>>

\* utils.get_file_extension and utils.get_file_name_without_extension
get_file_extension(name) == lower(splitext(name)[2])
get_file_name_without_extension(name) == splitext(name)[1]

-----------------------------------------------------------------------------
(* The re module on the other patterns of the program.  Besides "lit",     *)
(* "d" and "ws" a pattern has the elements "set" (a character class),      *)
(* "digits" (\d+ outside a group), "spaces" (\s+), "space" (\s), "bos"     *)
(* (^), "eos" ($), "b" (\b), "or" (an alternation, c holding the           *)
(* alternatives), and "open" and "close", the parentheses of a group.      *)

Set(cs) == [k |-> "set", c |-> cs]
DigitsElem == [k |-> "digits", c |-> ""]
Spaces == [k |-> "spaces", c |-> ""]
Space == [k |-> "space", c |-> ""]
Bos == [k |-> "bos", c |-> ""]
Eos == [k |-> "eos", c |-> ""]
WordBoundary == [k |-> "b", c |-> ""]
Or(alternatives) == [k |-> "or", c |-> alternatives]
Open == [k |-> "open", c |-> ""]
Close == [k |-> "close", c |-> ""]

\* (w1|w2|...): a group holding an alternation of literal words.
Words(ws) == <<Open, Or([n \in 1..Len(ws) |-> Lits(ws[n])]), Close>>

\* One character as the flags of the call compare it.
Fold(ignorecase, c) == IF ignorecase THEN Lower(c) ELSE c

\* \w on ASCII text, and \b: exactly one side of position i is a word
\* character.
IsWord(c) == IsLetter(c) \/ IsDigit(c) \/ c = "_"
WordAt(s, i) == i >= 1 /\ i <= Len(s) /\ IsWord(s[i])
AtBoundary(s, i) == WordAt(s, i - 1) # WordAt(s, i)

\* $ without re.MULTILINE: the end of s, or just before a newline that ends
\* s.
AtEnd(s, i) == i = Len(s) + 1 \/ (i = Len(s) /\ s[i] = "\n")

\* The backtracking matcher: pattern elements j.. against s from position
\* i, with the groups g closed so far (an open group is the position it
\* opened at).  The value is <<>> (no match) or <<m>>, m.groups the groups
\* and m.end the position after the match.
RECURSIVE MatchAt(_, _, _, _, _, _), Greedy(_, _, _, _, _, _, _, _),
          Alternatives(_, _, _, _, _, _, _)
MatchAt(pat, ignorecase, j, s, i, g) ==
    IF j > Len(pat) THEN <<[groups |-> g, end |-> i]>>
    ELSE LET k == pat[j].k
             next(i2) == MatchAt(pat, ignorecase, j + 1, s, i2, g)
         IN  CASE k = "lit" ->
                      IF /\ i <= Len(s)
                         /\ Fold(ignorecase, s[i]) = Fold(ignorecase, pat[j].c)
                      THEN next(i + 1) ELSE <<>>
               [] k = "set" ->
                      IF i <= Len(s) /\ s[i] \in pat[j].c
                      THEN next(i + 1) ELSE <<>>
               [] k = "space" ->
                      IF i <= Len(s) /\ IsSpace(s[i])
                      THEN next(i + 1) ELSE <<>>
               [] k = "bos" -> IF i = 1 THEN next(i) ELSE <<>>
               [] k = "eos" -> IF AtEnd(s, i) THEN next(i) ELSE <<>>
               [] k = "b" -> IF AtBoundary(s, i) THEN next(i) ELSE <<>>
               [] k = "open" ->
                      MatchAt(pat, ignorecase, j + 1, s, i, Append(g, i))
               [] k = "close" ->
                      MatchAt(pat, ignorecase, j + 1, s, i,
                              [g EXCEPT ![Len(g)] = SubSeq(s, g[Len(g)], i - 1)])
               [] k = "or" ->
                      Alternatives(pat, ignorecase, j, s, i, g, 1)
               [] k \in {"d", "digits"} ->
                      Greedy(pat, ignorecase, j, s, i, g, DigitRun(s, i), 1)
               [] k = "spaces" ->
                      Greedy(pat, ignorecase, j, s, i, g, SpaceRun(s, i), 1)
               [] k = "ws" ->
                      Greedy(pat, ignorecase, j, s, i, g, SpaceRun(s, i), 0)

\* A greedy repetition takes the longest run first and gives back one
\* character at a time.
Greedy(pat, ignorecase, j, s, i, g, n, least) ==
    IF n < least THEN <<>>
    ELSE LET g2 == IF pat[j].k = "d" THEN Append(g, SubSeq(s, i, i + n - 1))
                   ELSE g
             m == MatchAt(pat, ignorecase, j + 1, s, i + n, g2)
         IN  IF m # <<>> THEN m
             ELSE Greedy(pat, ignorecase, j, s, i, g, n - 1, least)

\* An alternation tries its alternatives in order, each followed by the
\* rest of the pattern.
Alternatives(pat, ignorecase, j, s, i, g, a) ==
    IF a > Len(pat[j].c) THEN <<>>
    ELSE LET m == MatchAt(pat[j].c[a] \o SubSeq(pat, j + 1, Len(pat)),
                          ignorecase, 1, s, i, g)
         IN  IF m # <<>> THEN m
             ELSE Alternatives(pat, ignorecase, j, s, i, g, a + 1)

\* re.search(pattern, s, flags): the match at the leftmost position that
\* has one; <<>> or <<m>>.
RECURSIVE SearchAt(_, _, _, _)
SearchAt(pat, ignorecase, s, i) ==
    IF i > Len(s) + 1 THEN <<>>
    ELSE LET m == MatchAt(pat, ignorecase, 1, s, i, <<>>)
         IN  IF m # <<>> THEN m ELSE SearchAt(pat, ignorecase, s, i + 1)

search(pat, s, ignorecase) == SearchAt(pat, ignorecase, s, 1)

\* re.sub(pattern, repl, s, flags) for a pattern that matches no empty
\* string: the matches, found left to right without overlap, from position
\* i on, are replaced by repl.
RECURSIVE SubFrom(_, _, _, _, _)
SubFrom(pat, repl, s, ignorecase, i) ==
    IF i > Len(s) THEN <<>>
    ELSE LET m == MatchAt(pat, ignorecase, 1, s, i, <<>>)
         IN  IF m # <<>> /\ m[1].end > i
             THEN repl \o SubFrom(pat, repl, s, ignorecase, m[1].end)
             ELSE <<s[i]>> \o SubFrom(pat, repl, s, ignorecase, i + 1)

sub(pat, repl, s, ignorecase) == SubFrom(pat, repl, s, ignorecase, 1)

-----------------------------------------------------------------------------
(* Config.QUALITY_PATTERNS, Config.AUDIO_PATTERNS and the detection of     *)
(* show name, quality and audio.                                           *)

\* The quality patterns in the opposite order.
QUALITY_PATTERNS_Reversed == <<
    Words(<<<<"W", "E", "B", "-", "D", "L">>, <<"B", "l", "u", "R", "a", "y">>, <<"B", "R", "R", "i", "p">>, <<"D", "V", "D", "R", "i", "p">>, <<"H", "D", "T", "V">>,
            <<"W", "E", "B", "R", "i", "p">>>>),
    Words(<<<<"H", "D">>, <<"F", "H", "D">>, <<"U", "H", "D">>, <<"S", "D">>>>),
    Words(<<<<"7", "2", "0", "p">>, <<"1", "0", "8", "0", "p">>, <<"1", "4", "4", "0", "p">>, <<"2", "1", "6", "0", "p">>, <<"4", "K">>, <<"8", "K">>>>) >>

QUALITY_PATTERNS == <<
    Words(<<<<"7", "2", "0", "p">>, <<"1", "0", "8", "0", "p">>, <<"1", "4", "4", "0", "p">>, <<"2", "1", "6", "0", "p">>, <<"4", "K">>, <<"8", "K">>>>),
    Words(<<<<"H", "D">>, <<"F", "H", "D">>, <<"U", "H", "D">>, <<"S", "D">>>>),
    Words(<<<<"W", "E", "B", "-", "D", "L">>, <<"B", "l", "u", "R", "a", "y">>, <<"B", "R", "R", "i", "p">>, <<"D", "V", "D", "R", "i", "p">>, <<"H", "D", "T", "V">>,
            <<"W", "E", "B", "R", "i", "p">>>>) >>

AUDIO_PATTERNS == <<
    Words(<<<<"A", "A", "C">>, <<"A", "C", "3">>, <<"D", "T", "S">>, <<"F", "L", "A", "C">>, <<"M", "P", "3">>, <<"O", "G", "G">>, <<"P", "C", "M">>,
            <<"T", "r", "u", "e", "H", "D">>, <<"A", "t", "m", "o", "s">>>>),
    Words(<<<<"2", ".", "0">>, <<"5", ".", "1">>, <<"7", ".", "1">>>>),
    Words(<<<<"S", "t", "e", "r", "e", "o">>, <<"M", "o", "n", "o">>>>) >>

\* for pattern in patterns[p..]: name = re.sub(pattern, '', name,
\*                                             flags=re.IGNORECASE)
\* (an empty name stays empty whatever is removed).
RECURSIVE RemoveAll(_, _, _)
RemoveAll(patterns, name, p) ==
    IF p > Len(patterns) \/ name = <<>> THEN name
    ELSE RemoveAll(patterns, sub(patterns[p], <<>>, name, TRUE), p + 1)

Separators == {".", "_", "-", "[", "]", "(", ")"}

CodecWords == <<<<"x", "2", "6", "4">>, <<"x", "2", "6", "5">>, <<"h", "2", "6", "4">>, <<"h", "2", "6", "5">>, <<"h", "e", "v", "c">>, <<"a", "v", "c">>>>

SourceWords == <<<<"w", "e", "b", "-", "d", "l">>, <<"w", "e", "b", "r", "i", "p">>, <<"b", "l", "u", "r", "a", "y">>, <<"b", "r", "r", "i", "p">>, <<"d", "v", "d", "r", "i", "p">>,
                 <<"h", "d", "t", "v">>, <<"h", "d", "c", "a", "m">>>>

\* re.sub(r'\s+', ' ', name).strip()
CollapseSpaces(name) == strip(sub(<<Spaces>>, <<" ">>, name, FALSE))

\* What is left of the name after the patterns, the separators and the
\* release tags are removed.
StrippedName(name0) ==
    LET n1 == RemoveAll(EPISODE_PATTERNS, name0, 1)
        n2 == RemoveAll(QUALITY_PATTERNS, n1, 1)
        n3 == RemoveAll(AUDIO_PATTERNS, n2, 1)
        n4 == sub(<<Set(Separators)>>, <<" ">>, n3, FALSE)
        n5 == CollapseSpaces(n4)
        n6 == sub(<<WordBoundary>> \o Words(CodecWords) \o <<WordBoundary>>,
                  <<>>, n5, TRUE)
        n7 == sub(<<WordBoundary>> \o Words(SourceWords) \o <<WordBoundary>>,
                  <<>>, n6, TRUE)
    IN  CollapseSpaces(n7)

_extract_show_name(name0) ==
    LET n8 == StrippedName(name0)
        name == IF Len(n8) < 2 THEN get_file_name_without_extension(name0)
                ELSE n8
    IN  title(name)

\* The first pattern of patterns[p..] that is found in name gives its group,
\* upper-cased; <<>> when none is found.
RECURSIVE FirstFound(_, _, _)
FirstFound(patterns, name, p) ==
    IF p > Len(patterns) THEN <<>>
    ELSE LET match == search(patterns[p], name, TRUE)
         IN  IF match # <<>> THEN <<upper(match[1].groups[1])>>
             ELSE FirstFound(patterns, name, p + 1)

\* A detection without the resolution checks that follow the patterns.
_extract_quality_NoFallback(name) ==
    LET found == FirstFound(QUALITY_PATTERNS, name, 1)
    IN  IF found # <<>> THEN found[1] ELSE <<"U", "n", "k", "n", "o", "w", "n">>

_extract_quality(name) ==
    LET found == FirstFound(QUALITY_PATTERNS, name, 1)
    IN  IF found # <<>> THEN found[1]
        ELSE IF search(Lits(<<"7", "2", "0">>), name, FALSE) # <<>> THEN <<"7", "2", "0", "p">>
        ELSE IF search(Lits(<<"1", "0", "8", "0">>), name, FALSE) # <<>> THEN <<"1", "0", "8", "0", "p">>
        ELSE IF search(<<Or(<<Lits(<<"2", "1", "6", "0">>), Lits(<<"4", "K">>)>>)>>, name, TRUE)
                    # <<>>
             THEN <<"4", "K">>
        ELSE <<"U", "n", "k", "n", "o", "w", "n">>

_extract_audio(name) ==
    LET found == FirstFound(AUDIO_PATTERNS, name, 1)
    IN  IF found # <<>> THEN found[1] ELSE <<"U", "n", "k", "n", "o", "w", "n">>

-----------------------------------------------------------------------------
(* EpisodeDetector.detect_episode_info.  self is the detector the method   *)
(* is called on, a record of its fields rename_template and                *)
(* custom_channel.                                                         *)

\* A detection whose show name falls back to the channel of the detector.
detect_episode_info_Stateful(self, name) ==
    LET clean_name == get_file_name_without_extension(name)
        se == _extract_episode_season(clean_name)
        show == _extract_show_name(clean_name)
    IN  [season |-> se[1], episode |-> se[2],
         show_name |-> IF self.custom_channel # <<>>
                       THEN self.custom_channel ELSE show,
         quality |-> _extract_quality(clean_name),
         audio |-> _extract_audio(clean_name),
         original_filename |-> name,
         extension |-> get_file_extension(name)]

\* A detection that reports season 1 whenever it found no season.
detect_episode_info_SeasonDefault(self, name) ==
    LET clean_name == get_file_name_without_extension(name)
        se == _extract_episode_season(clean_name)
    IN  [season |-> IF se[1] = None THEN Some(1) ELSE se[1],
         episode |-> se[2],
         show_name |-> _extract_show_name(clean_name),
         quality |-> _extract_quality(clean_name),
         audio |-> _extract_audio(clean_name),
         original_filename |-> name,
         extension |-> get_file_extension(name)]

detect_episode_info(self, name) ==
    LET clean_name == get_file_name_without_extension(name)
        se == _extract_episode_season(clean_name)
    IN  [season |-> se[1], episode |-> se[2],
         show_name |-> _extract_show_name(clean_name),
         quality |-> _extract_quality(clean_name),
         audio |-> _extract_audio(clean_name),
         original_filename |-> name,
         extension |-> get_file_extension(name)]

\* EpisodeDetector.__init__
EpisodeDetector ==
    [rename_template |-> DEFAULT_RENAME_TEMPLATE, custom_channel |-> <<>>]

-----------------------------------------------------------------------------
(* The filenames detect_episode_info is called with: every concatenation   *)
(* of at most MaxFilenamePieces pieces.                                    *)

FilenamePieces == {
    <<"S", "h", "o", "w">>, <<"a">>, <<" ">>, <<".">>, <<"5">>, <<"S", "0", "1", "E", "0", "2">>, <<"0", "x", "1">>, <<"7", "2", "0", "p">>,
    <<"A", "A", "C">>, <<".", "m", "k", "v">> }

Filenames == {Concat(ps) : ps \in PieceSeqs(FilenamePieces, MaxFilenamePieces)}

-----------------------------------------------------------------------------
(* Specification SpecDetect: one call of detect_episode_info on a newly    *)
(* constructed EpisodeDetector.                                            *)

InitDetect ==
    /\ pc = "call"
    /\ filename \in Filenames
    /\ episode_info = Unused
    /\ custom_template = Unused
    /\ rename_template = EpisodeDetector.rename_template
    /\ custom_channel = EpisodeDetector.custom_channel
    /\ result = Unused
    /\ filenames = Unused
    /\ detectors = Unused
    /\ user_settings = Unused
    /\ tracker = Unused
    /\ history = Unused
    /\ text = Unused
    /\ max_length = Unused
    /\ fs = Unused

DetectEpisodeInfo ==
    /\ pc = "call"
    /\ result' = detect_episode_info(
                     [rename_template |-> rename_template,
                      custom_channel |-> custom_channel], filename)
    /\ pc' = "done"
    /\ UNCHANGED <<filename, episode_info, custom_template, rename_template,
                   custom_channel, filenames, detectors, user_settings,
                   tracker, history, text, max_length, fs>>

NextDetect == DetectEpisodeInfo

SpecDetect == InitDetect /\ [][NextDetect]_vars

-----------------------------------------------------------------------------
(* Properties of the record detect_episode_info returns.                   *)

\* C11: in every EpisodeInfo returned by detect_episode_info the season is
\* either absent or an integer >= 1.
C11_SeasonAtLeastOne ==
    pc = "done" => (result.season = None \/ result.season[1] >= 1)

\* C12: in every EpisodeInfo returned by detect_episode_info, for any
\* filename including the empty string, show_name is a non-empty string.
C12_ShowNameNonEmpty ==
    pc = "done" => result.show_name # <<>>

\* C13: in every EpisodeInfo returned by detect_episode_info the season is
\* absent if and only if the episode is absent.
C13_BothOrNeither ==
    pc = "done" => (result.season = None <=> result.episode = None)

\* C13 witness: a filename with an extension and without any digit has been
\* detected, and both numbers are absent.
C13_Witness ==
    /\ pc = "done"
    /\ filename # <<>>
    /\ ~HasDigit(filename)
    /\ result.extension = <<".", "m", "k", "v">>
    /\ result.season = None
    /\ result.episode = None

-----------------------------------------------------------------------------
(* Integer conversions that can fail.  A call that may raise returns an    *)
(* outcome: the exception raised ("" for none) and the value returned.     *)

Returned(v) == [exc |-> "", value |-> v]
Raised(e) == [exc |-> e, value |-> <<>>]

\* int(s) of a run of ASCII digits: ValueError beyond the digit limit.
int_limited(s) ==
    IF Len(s) > MaxIntDigits THEN Raised("ValueError") ELSE Returned(int(s))

\* str(n) of an integer n >= 0: ValueError beyond the digit limit.
str_limited(n) ==
    IF Len(str(n)) > MaxIntDigits THEN Raised("ValueError")
    ELSE Returned(str(n))

\* The try block of a match: the conversions of its groups, in order.
TryFromGroups(groups) ==
    IF \E k \in 1..Len(groups) : int_limited(groups[k]).exc # ""
    THEN Raised("ValueError")
    ELSE Returned(FromGroups(groups))

\* The try block of the number fallback; except ValueError: pass.
TryDigitFallback(name) ==
    LET numbers == re_findall_digits(name)
    IN  IF numbers # <<>> /\ int_limited(numbers[Len(numbers)]).exc = ""
        THEN DigitFallback(name)
        ELSE <<None, None>>

\* The loop over the pattern list from pattern p on; except ValueError:
\* continue.
RECURSIVE TryExtractLoop(_, _, _)
TryExtractLoop(patterns, name, p) ==
    IF p > Len(patterns) THEN TryDigitFallback(name)
    ELSE LET match == re_search(patterns[p], name)
         IN  IF match # <<>> /\ TryFromGroups(match[1]).exc = ""
             THEN TryFromGroups(match[1]).value
             ELSE TryExtractLoop(patterns, name, p + 1)

\* _extract_episode_season, its conversions failing beyond the digit limit.
_extract_episode_season_limited(name) ==
    Returned(TryExtractLoop(EPISODE_PATTERNS, name, 1))

\* generate_new_filename, its conversions failing beyond the digit limit:
\* str(episode_info.season or 1) and str(episode_info.episode or 1) are
\* evaluated first and are not inside any try block.
generate_new_filename_limited(info, custom, rename, channel) ==
    IF \/ str_limited(IntOr(info.season, 1)).exc # ""
       \/ str_limited(IntOr(info.episode, 1)).exc # ""
    THEN Raised("ValueError")
    ELSE Returned(generate_new_filename(info, custom, rename, channel))

-----------------------------------------------------------------------------
(* Specification SpecConversion: one call of _extract_episode_season or    *)
(* of generate_new_filename, with numbers on both sides of the digit       *)
(* limit.                                                                  *)

LongNamePieces == {
    <<"S", "1", "E", "2">>, <<"S", "1", "2", "3", "4", "5", "6", "E", "1">>, <<"S", "1", "E", "1", "2", "3", "4", "5", "6">>, <<"E", "7">>, <<"E", "1", "2", "3", "4", "5", "6">>, <<"-", " ", "3">>,
    <<"1", "2", "3", "4", "5", "6">>, <<"7">>, <<" ">> }

LongNames == {Concat(ps) : ps \in PieceSeqs(LongNamePieces, MaxLongPieces)}

LongNumbers == {None, Some(7), Some(123456)}

LongInfos ==
    {EpisodeInfo(s, e, <<"D", "e", "m", "o">>, <<>>, <<>>, <<".", "m", "k", "v">>) :
        s \in LongNumbers, e \in LongNumbers}

InitConversion ==
    /\ \/ /\ pc = "extract"
          /\ filename \in LongNames
          /\ episode_info = Unused
          /\ custom_template = Unused
       \/ /\ pc = "generate"
          /\ filename = Unused
          /\ episode_info \in LongInfos
          /\ custom_template \in {None, Some(<<"{">>), Some(<<"{", "S", "e", "a", "s", "o", "n", "}", "x", "{", "E", "p", "i", "s", "o", "d", "e", "}">>)}
    /\ rename_template = EpisodeDetector.rename_template
    /\ custom_channel = EpisodeDetector.custom_channel
    /\ result = Unused
    /\ filenames = Unused
    /\ detectors = Unused
    /\ user_settings = Unused
    /\ tracker = Unused
    /\ history = Unused
    /\ text = Unused
    /\ max_length = Unused
    /\ fs = Unused

ExtractEpisodeSeasonLimited ==
    /\ pc = "extract"
    /\ result' = _extract_episode_season_limited(filename)
    /\ pc' = "extracted"
    /\ UNCHANGED <<filename, episode_info, custom_template, rename_template,
                   custom_channel, filenames, detectors, user_settings,
                   tracker, history, text, max_length, fs>>

GenerateNewFilenameLimited ==
    /\ pc = "generate"
    /\ result' = generate_new_filename_limited(episode_info, custom_template,
                                               rename_template, custom_channel)
    /\ pc' = "generated"
    /\ UNCHANGED <<filename, episode_info, custom_template, rename_template,
                   custom_channel, filenames, detectors, user_settings,
                   tracker, history, text, max_length, fs>>

NextConversion == ExtractEpisodeSeasonLimited \/ GenerateNewFilenameLimited

SpecConversion == InitConversion /\ [][NextConversion]_vars

-----------------------------------------------------------------------------
(* Properties of the calls whose conversions can fail.                     *)

\* Every group of a match is within the digit limit.
Convertible(groups) == \A k \in 1..Len(groups) : Len(groups[k]) <= MaxIntDigits

\* Pattern p matches s and the groups of its leftmost match convert.
Converts(p, s) ==
    LET match == re_search(EPISODE_PATTERNS[p], s)
    IN  match # <<>> /\ Convertible(match[1])

\* C14: detect_episode_info and generate_new_filename never raise for any
\* input; when the integer conversion of a captured group fails, the pattern
\* counts as a non-match and matching continues with the next pattern and
\* then the digit-run fallback, ending with (None, None) if that fails too.
C14_NeverRaises ==
    pc \in {"extracted", "generated"} =>
        /\ result.exc = ""
        /\ pc = "extracted" =>
             /\ \A p \in 1..Len(EPISODE_PATTERNS) :
                    (Converts(p, filename)
                     /\ \A q \in 1..(p - 1) : ~Converts(q, filename)) =>
                        result.value =
                            Captured(re_search(EPISODE_PATTERNS[p],
                                               filename)[1])
             /\ (\A p \in 1..Len(EPISODE_PATTERNS) : ~Converts(p, filename)) =>
                    \/ /\ result.value = <<None, None>>
                       /\ \A a \in 1..Len(filename) :
                            \A b \in a..Len(filename) :
                              LastDigitRun(filename, a, b) =>
                                  b - a + 1 > MaxIntDigits
                    \/ \E a \in 1..Len(filename) :
                         \E b \in a..Len(filename) :
                           /\ LastDigitRun(filename, a, b)
                           /\ b - a + 1 <= MaxIntDigits
                           /\ result.value =
                                <<Some(1),
                                  Some(Decimal(SubSeq(filename, a, b)))>>

-----------------------------------------------------------------------------
(* EpisodeDetector.get_batch_rename_preview                                *)

\* The dict the loop appends for one filename.
PreviewEntry(self, name, template) ==
    LET info == detect_episode_info(self, name)
    IN  [original |-> name,
         new |-> generate_new_filename(info, template, self.rename_template,
                                       self.custom_channel),
         season |-> info.season,
         episode |-> info.episode,
         show |-> info.show_name]

\* A preview that leaves out a filename that occurred earlier in the list.
RECURSIVE PreviewFrom_Dedup(_, _, _, _)
PreviewFrom_Dedup(self, names, template, n) ==
    IF n > Len(names) THEN <<>>
    ELSE (IF \E m \in 1..(n - 1) : names[m] = names[n] THEN <<>>
          ELSE <<PreviewEntry(self, names[n], template)>>)
         \o PreviewFrom_Dedup(self, names, template, n + 1)

\* for filename in filenames[n..]: preview.append({...})
RECURSIVE PreviewFrom(_, _, _, _)
PreviewFrom(self, names, template, n) ==
    IF n > Len(names) THEN <<>>
    ELSE <<PreviewEntry(self, names[n], template)>>
         \o PreviewFrom(self, names, template, n + 1)

get_batch_rename_preview(self, names, template) ==
    PreviewFrom(self, names, template, 1)

-----------------------------------------------------------------------------
(* Specification SpecPreview: one call of get_batch_rename_preview on a    *)
(* newly constructed EpisodeDetector.                                      *)

PreviewNames == {<<"S", "h", "o", "w", " ", "S", "0", "1", "E", "0", "2", ".", "m", "k", "v">>, <<"s", "h", "o", "w", "_", "s", "0", "1", "e", "0", "2", ".", "m", "k", "v">>, <<"a", " ", "5", ".", "m", "p", "4">>}

PreviewLists == UNION {[1..n -> PreviewNames] : n \in 0..MaxBatch}

InitPreview ==
    /\ pc = "call"
    /\ filename = Unused
    /\ episode_info = Unused
    /\ custom_template \in {None, Some(<<"{", "S", "h", "o", "w", "N", "a", "m", "e", "}", " ", "E", "{", "E", "p", "i", "s", "o", "d", "e", "}">>)}
    /\ rename_template = EpisodeDetector.rename_template
    /\ custom_channel = EpisodeDetector.custom_channel
    /\ result = Unused
    /\ filenames \in PreviewLists
    /\ detectors = Unused
    /\ user_settings = Unused
    /\ tracker = Unused
    /\ history = Unused
    /\ text = Unused
    /\ max_length = Unused
    /\ fs = Unused

GetBatchRenamePreview ==
    /\ pc = "call"
    /\ result' = get_batch_rename_preview(
                     [rename_template |-> rename_template,
                      custom_channel |-> custom_channel],
                     filenames, custom_template)
    /\ pc' = "done"
    /\ UNCHANGED <<filename, episode_info, custom_template, rename_template,
                   custom_channel, filenames, detectors, user_settings,
                   tracker, history, text, max_length, fs>>

NextPreview == GetBatchRenamePreview

SpecPreview == InitPreview /\ [][NextPreview]_vars

\* C16: get_batch_rename_preview maps the input list one to one: the result
\* is as long as the input, its i-th entry has 'original' equal to the i-th
\* input name and 'new' equal to generate_new_filename(
\* detect_episode_info(that name), template); duplicate inputs and inputs
\* that produce the same new name are all kept.
C16_PreviewOneToOne ==
    pc = "done" =>
        /\ Len(result) = Len(filenames)
        /\ \A i \in 1..Len(filenames) :
             /\ result[i].original = filenames[i]
             /\ result[i].new =
                  generate_new_filename(
                      detect_episode_info(EpisodeDetector, filenames[i]),
                      custom_template, rename_template, custom_channel)

\* C16 witness: a list that holds one name twice and then a different name
\* with the same new name gave three entries.
C16_Witness ==
    /\ pc = "done"
    /\ Len(filenames) = 3
    /\ filenames[1] = filenames[2]
    /\ filenames[3] # filenames[1]
    /\ Len(result) = 3
    /\ result[1] = result[2]
    /\ result[3].original = filenames[3]
    /\ result[3].new = result[1].new

-----------------------------------------------------------------------------
(* EpisodeDetector.set_rename_template and EpisodeDetector.set_channel:    *)
(* the detector after the call.                                            *)

\* set_rename_template keeping the first template that was set.
set_rename_template_Once(self, template) ==
    IF self.rename_template = DEFAULT_RENAME_TEMPLATE
    THEN [self EXCEPT !.rename_template = template]
    ELSE self

set_rename_template(self, template) ==
    [self EXCEPT !.rename_template = template]

set_channel(self, channel) == [self EXCEPT !.custom_channel = channel]

-----------------------------------------------------------------------------
(* Specification SpecDetector: calls of the methods of the two             *)
(* EpisodeDetector objects of the program, in any order.  Every call is    *)
(* appended to history with what it returned.                              *)

\* ZipBot.episode_detector and the episode_detector of ZipBot.file_processor
Instances == {"bot", "file_processor"}

SetTemplates == {<<"{", "S", "h", "o", "w", "N", "a", "m", "e", "}", " ", "{", "C", "h", "a", "n", "n", "e", "l", "}">>, <<"{", "C", "h", "a", "n", "n", "e", "l", "}", " ", "E", "{", "E", "p", "i", "s", "o", "d", "e", "}", ".", "{", "E", "x", "t", "e", "n", "s", "i", "o", "n", "}">>}
SetChannels == {<<"T", "V">>, <<"A", "n", "i", "m", "e">>}
DetectorFilenames == {<<"S", "h", "o", "w", " ", "S", "0", "1", "E", "0", "2", ".", "m", "k", "v">>, <<"a", " ", "5", ".", "m", "p", "4">>}

Call(op, self, arg, ret) == [op |-> op, self |-> self, arg |-> arg, ret |-> ret]

InitDetector ==
    /\ pc = "idle"
    /\ filename = Unused
    /\ episode_info = Unused
    /\ custom_template = Unused
    /\ rename_template = Unused
    /\ custom_channel = Unused
    /\ result = Unused
    /\ filenames = Unused
    /\ detectors = [d \in Instances |-> EpisodeDetector]
    /\ user_settings = Unused
    /\ tracker = Unused
    /\ history = <<>>
    /\ text = Unused
    /\ max_length = Unused
    /\ fs = Unused

SetRenameTemplate(d, template) ==
    /\ Len(history) < MaxCalls
    /\ detectors' = [detectors EXCEPT ![d] = set_rename_template(@, template)]
    /\ history' = Append(history,
                         Call("set_rename_template", d, template, None))
    /\ UNCHANGED <<pc, filename, episode_info, custom_template,
                   rename_template, custom_channel, result, filenames,
                   user_settings, tracker,
                   text, max_length, fs>>

SetChannel(d, channel) ==
    /\ Len(history) < MaxCalls
    /\ detectors' = [detectors EXCEPT ![d] = set_channel(@, channel)]
    /\ history' = Append(history, Call("set_channel", d, channel, None))
    /\ UNCHANGED <<pc, filename, episode_info, custom_template,
                   rename_template, custom_channel, result, filenames,
                   user_settings, tracker,
                   text, max_length, fs>>

DetectEpisodeInfoOn(d, name) ==
    /\ Len(history) < MaxCalls
    /\ history' = Append(history,
                         Call("detect_episode_info", d, name,
                              detect_episode_info(detectors[d], name)))
    /\ UNCHANGED <<pc, filename, episode_info, custom_template,
                   rename_template, custom_channel, result, filenames,
                   detectors, user_settings, tracker,
                   text, max_length, fs>>

\* generate_new_filename(episode_info) without a custom template.
GenerateNewFilenameOn(d, info) ==
    /\ Len(history) < MaxCalls
    /\ history' = Append(history,
                         Call("generate_new_filename", d, info,
                              generate_new_filename(
                                  info, None, detectors[d].rename_template,
                                  detectors[d].custom_channel)))
    /\ UNCHANGED <<pc, filename, episode_info, custom_template,
                   rename_template, custom_channel, result, filenames,
                   detectors, user_settings, tracker,
                   text, max_length, fs>>

NextDetector ==
    \/ \E d \in Instances : \E template \in SetTemplates :
           SetRenameTemplate(d, template)
    \/ \E d \in Instances : \E channel \in SetChannels :
           SetChannel(d, channel)
    \/ \E d \in Instances : \E name \in DetectorFilenames :
           DetectEpisodeInfoOn(d, name)
    \/ \E d \in Instances : \E name \in DetectorFilenames :
           GenerateNewFilenameOn(d, detect_episode_info(detectors[d], name))

SpecDetector == InitDetector /\ [][NextDetector]_vars

-----------------------------------------------------------------------------
(* Properties of the calls recorded in history.                            *)

IsCall(n, op) == history[n].op = op

\* The argument of the last call of op on detector d before call n, or
\* default when there is none.
LastSet(op, d, n, default) ==
    LET before == {m \in 1..(n - 1) : IsCall(m, op) /\ history[m].self = d}
    IN  IF before = {} THEN default
        ELSE history[CHOOSE m \in before : \A k \in before : k <= m].arg

\* C15: detect_episode_info is deterministic and independent of detector
\* state: two calls with the same filename return equal records, whatever
\* set_rename_template / set_channel calls or other detections happen in
\* between, and on whichever EpisodeDetector instance they run.
C15_DetectDeterministic ==
    \A m \in DOMAIN history : \A n \in DOMAIN history :
        (/\ IsCall(m, "detect_episode_info")
         /\ IsCall(n, "detect_episode_info")
         /\ history[m].arg = history[n].arg) =>
            history[m].ret = history[n].ret

\* C15 witness: a filename was detected on one detector, a channel was set
\* on the other detector, and the same filename detected there gave the
\* same record.
C15_Witness ==
    /\ Len(history) = 3
    /\ IsCall(1, "detect_episode_info")
    /\ IsCall(2, "set_channel")
    /\ IsCall(3, "detect_episode_info")
    /\ history[1].self # history[3].self
    /\ history[2].self = history[3].self
    /\ history[1].arg = history[3].arg
    /\ history[1].ret = history[3].ret
    /\ history[3].ret.season = Some(1)
    /\ history[3].ret.episode = Some(2)

\* C17: generate_new_filename called without a custom template uses the
\* template of the most recent set_rename_template call and the channel of
\* the most recent set_channel call on its detector, whatever the
\* interleaving of those calls.
C17_LastWriteWins ==
    \A n \in DOMAIN history :
        IsCall(n, "generate_new_filename") =>
            history[n].ret =
                generate_new_filename(
                    history[n].arg, None,
                    LastSet("set_rename_template", history[n].self, n,
                            DEFAULT_RENAME_TEMPLATE),
                    LastSet("set_channel", history[n].self, n, <<>>))

\* C17 witness: two different templates were set on one detector, and the
\* name generated on it next is the one of the second template and not the
\* one of the first.
C17_Witness ==
    /\ Len(history) = 3
    /\ IsCall(1, "set_rename_template")
    /\ IsCall(2, "set_rename_template")
    /\ IsCall(3, "generate_new_filename")
    /\ history[1].self = history[3].self
    /\ history[2].self = history[3].self
    /\ history[1].arg # history[2].arg
    /\ history[3].ret = generate_new_filename(history[3].arg, None,
                                              history[2].arg, <<>>)
    /\ history[3].ret # generate_new_filename(history[3].arg, None,
                                              history[1].arg, <<>>)

-----------------------------------------------------------------------------
(* ZipBot: the commands /e and /channel and the renaming of the media      *)
(* files of a ZIP by its FileProcessor.                                    *)

SUPPORTED_VIDEO_FORMATS ==
    {<<".", "m", "p", "4">>, <<".", "m", "k", "v">>, <<".", "a", "v", "i">>, <<".", "m", "o", "v">>, <<".", "w", "m", "v">>, <<".", "f", "l", "v">>, <<".", "w", "e", "b", "m">>,
     <<".", "m", "4", "v">>}

SUPPORTED_AUDIO_FORMATS ==
    {<<".", "m", "p", "3">>, <<".", "f", "l", "a", "c">>, <<".", "w", "a", "v">>, <<".", "a", "a", "c">>, <<".", "m", "4", "a">>, <<".", "o", "g", "g">>}

\* The file type _process_media_file gives a file.
file_type(name) ==
    IF \E x \in SUPPORTED_VIDEO_FORMATS : endswith(lower(name), x)
    THEN "video"
    ELSE IF \E x \in SUPPORTED_AUDIO_FORMATS : endswith(lower(name), x)
    THEN "audio"
    ELSE "subtitle"

\* ZipBot.get_user_settings: the settings dict after the call, which
\* creates the defaults of a user who has none.
get_user_settings(settings, user_id) ==
    IF user_id \in DOMAIN settings THEN settings
    ELSE [u \in DOMAIN settings \cup {user_id} |->
            IF u = user_id
            THEN [rename_template |-> DEFAULT_RENAME_TEMPLATE,
                  channel_name |-> <<"C", "h", "a", "n", "n", "e", "l">>,
                  auto_rename |-> TRUE]
            ELSE settings[u]]

\* FileProcessor._process_media_file: the new filename of a file.  self is
\* the detector of the FileProcessor; moved tells whether shutil.move
\* succeeded.
_process_media_file(self, name, rename_file, moved) ==
    LET renaming == rename_file /\ file_type(name) \in {"video", "audio"}
        info == detect_episode_info(self, name)
        new_filename ==
            IF renaming
            THEN generate_new_filename(info, None, self.rename_template,
                                       self.custom_channel)
            ELSE name
    IN  IF new_filename # name /\ ~moved THEN name ELSE new_filename

-----------------------------------------------------------------------------
(* Specification SpecBot: users send /e, /channel and ZIP files to one     *)
(* ZipBot.  args is the text after the command, <<>> when there is none.   *)

Users == {1, 2}
CommandTemplates == {<<>>, <<"{", "S", "h", "o", "w", "N", "a", "m", "e", "}", " ", "E", "{", "E", "p", "i", "s", "o", "d", "e", "}", " ", "{", "C", "h", "a", "n", "n", "e", "l", "}">>}
CommandChannels == {<<>>, <<"T", "V">>}
ZipMembers == {<<"S", "h", "o", "w", " ", "S", "0", "1", "E", "0", "2", ".", "m", "k", "v">>, <<"n", "o", "t", "e", "s", ".", "s", "r", "t">>}

InitBot ==
    /\ pc = "idle"
    /\ filename = Unused
    /\ episode_info = Unused
    /\ custom_template = Unused
    /\ rename_template = Unused
    /\ custom_channel = Unused
    /\ result = Unused
    /\ filenames = Unused
    /\ detectors = [d \in Instances |-> EpisodeDetector]
    /\ user_settings = <<>>
    /\ tracker = Unused
    /\ history = <<>>
    /\ text = Unused
    /\ max_length = Unused
    /\ fs = Unused

\* ZipBot.rename_template_command
RenameTemplateCommand(user_id, args) ==
    /\ Len(history) < MaxCalls
    /\ IF args = <<>>
       THEN /\ user_settings' = get_user_settings(user_settings, user_id)
            /\ UNCHANGED detectors
       ELSE /\ user_settings' =
                  [get_user_settings(user_settings, user_id)
                      EXCEPT ![user_id].rename_template = args]
            /\ detectors' =
                  [detectors EXCEPT !["bot"] = set_rename_template(@, args)]
    /\ history' = Append(history, Call("/e", user_id, args, None))
    /\ UNCHANGED <<pc, filename, episode_info, custom_template,
                   rename_template, custom_channel, result, filenames,
                   tracker,
                   text, max_length, fs>>

\* ZipBot.channel_command
ChannelCommand(user_id, args) ==
    /\ Len(history) < MaxCalls
    /\ IF args = <<>>
       THEN /\ user_settings' = get_user_settings(user_settings, user_id)
            /\ UNCHANGED detectors
       ELSE /\ user_settings' =
                  [get_user_settings(user_settings, user_id)
                      EXCEPT ![user_id].channel_name = args]
            /\ detectors' =
                  [detectors EXCEPT !["bot"] = set_channel(@, args)]
    /\ history' = Append(history, Call("/channel", user_id, args, None))
    /\ UNCHANGED <<pc, filename, episode_info, custom_template,
                   rename_template, custom_channel, result, filenames,
                   tracker,
                   text, max_length, fs>>

\* ZipBot._process_zip_document for a ZIP that holds the one file name:
\* process_zip_file of the bot's FileProcessor with the user's auto_rename.
ProcessZipDocument(user_id, name, moved) ==
    /\ Len(history) < MaxCalls
    /\ user_settings' = get_user_settings(user_settings, user_id)
    /\ history' =
          Append(history,
                 Call("zip", user_id, [name |-> name, moved |-> moved],
                      _process_media_file(
                          detectors["file_processor"], name,
                          user_settings'[user_id].auto_rename, moved)))
    /\ UNCHANGED <<pc, filename, episode_info, custom_template,
                   rename_template, custom_channel, result, filenames,
                   detectors, tracker,
                   text, max_length, fs>>

NextBot ==
    \/ \E u \in Users : \E args \in CommandTemplates :
           RenameTemplateCommand(u, args)
    \/ \E u \in Users : \E args \in CommandChannels : ChannelCommand(u, args)
    \/ \E u \in Users : \E name \in ZipMembers : \E moved \in BOOLEAN :
           ProcessZipDocument(u, name, moved)

SpecBot == InitBot /\ [][NextBot]_vars

\* The text of the last command op with a text that user_id sent before
\* call n; <<>> when there is none.
LastCommand(op, user_id, n) ==
    LET before == {m \in 1..(n - 1) :
                      /\ IsCall(m, op)
                      /\ history[m].self = user_id
                      /\ history[m].arg # <<>>}
    IN  IF before = {} THEN <<>>
        ELSE history[CHOOSE m \in before : \A k \in before : k <= m].arg

\* C18: after a user has set a rename template with /e <template> and a
\* channel name with /channel <name>, the media files of a ZIP that the
\* user sends next are renamed with that template and that channel name.
C18_CommandsReachRenaming ==
    \A n \in DOMAIN history :
        (/\ IsCall(n, "zip")
         /\ file_type(history[n].arg.name) \in {"video", "audio"}
         /\ history[n].arg.moved
         /\ LastCommand("/e", history[n].self, n) # <<>>
         /\ LastCommand("/channel", history[n].self, n) # <<>>) =>
            history[n].ret =
                generate_new_filename(
                    detect_episode_info(EpisodeDetector, history[n].arg.name),
                    None,
                    LastCommand("/e", history[n].self, n),
                    LastCommand("/channel", history[n].self, n))

-----------------------------------------------------------------------------
(* ProgressTracker: the counting of completed files and the status         *)
(* updates sent through the callback.  A tracker is the record of the      *)
(* fields the updates depend on; update_callback tells whether a callback  *)
(* was given, update_task the state of the periodic task.                  *)

STATUS_UPDATE_FILES == 4

\* ProgressTracker.__init__
ProgressTracker(update_callback) ==
    [update_callback |-> update_callback,
     processed_files |-> 0,
     is_active |-> FALSE,
     update_task |-> "none",
     files_since_update |-> 0]

\* ProgressTracker.start: the tracker after the call.
start(self) ==
    [self EXCEPT !.processed_files = 0,
                 !.is_active = TRUE,
                 !.files_since_update = 0,
                 !.update_task = IF self.update_callback THEN "running" ELSE @]

\* update_file_progress that sends the update without resetting the count.
update_file_progress_NoReset(self, completed) ==
    IF ~self.is_active \/ ~completed THEN [tracker |-> self, sent |-> FALSE]
    ELSE LET counted ==
                 [self EXCEPT !.processed_files = @ + 1,
                              !.files_since_update = @ + 1]
         IN  IF /\ counted.files_since_update >= STATUS_UPDATE_FILES
                /\ counted.update_callback
             THEN [tracker |-> counted, sent |-> TRUE]
             ELSE [tracker |-> counted, sent |-> FALSE]

\* ProgressTracker.update_file_progress: the tracker after the call, and
\* whether the call sent an update through the callback.
update_file_progress(self, completed) ==
    IF ~self.is_active \/ ~completed THEN [tracker |-> self, sent |-> FALSE]
    ELSE LET counted ==
                 [self EXCEPT !.processed_files = @ + 1,
                              !.files_since_update = @ + 1]
         IN  IF /\ counted.files_since_update >= STATUS_UPDATE_FILES
                /\ counted.update_callback
             THEN [tracker |-> [counted EXCEPT !.files_since_update = 0],
                   sent |-> TRUE]
             ELSE [tracker |-> counted, sent |-> FALSE]

\* ProgressTracker.finish and ProgressTracker.pause: the tracker after the
\* call.
stop(self) ==
    [self EXCEPT !.is_active = FALSE,
                 !.update_task = IF @ = "none" THEN @ ELSE "cancelled"]

\* ProgressTracker.resume: the tracker after the call.
resume(self) ==
    IF self.is_active THEN self
    ELSE [self EXCEPT !.is_active = TRUE,
                      !.update_task =
                          IF self.update_callback THEN "running" ELSE @]

\* What the callback is called with: the message, of which the model keeps
\* the number of processed files it shows, and the sender.
Update(sender, self) ==
    [op |-> "callback", sender |-> sender,
     processed_files |-> self.processed_files]

-----------------------------------------------------------------------------
(* Specification SpecTracker: one ProgressTracker, with or without a       *)
(* callback, and the calls made on it.  history holds the calls of start   *)
(* and the updates sent through the callback.                              *)

InitTracker ==
    /\ pc = "idle"
    /\ filename = Unused
    /\ episode_info = Unused
    /\ custom_template = Unused
    /\ rename_template = Unused
    /\ custom_channel = Unused
    /\ result = Unused
    /\ filenames = Unused
    /\ detectors = Unused
    /\ user_settings = Unused
    /\ tracker \in {ProgressTracker(c) : c \in BOOLEAN}
    /\ history = <<>>
    /\ text = Unused
    /\ max_length = Unused
    /\ fs = Unused

Updates == Cardinality({n \in DOMAIN history : history[n].op = "start"
                            \/ history[n].sender = "_periodic_update"})

Start ==
    /\ Updates < MaxUpdates
    /\ tracker' = start(tracker)
    /\ history' = Append(history, [op |-> "start", sender |-> "start",
                                   processed_files |-> 0])
    /\ UNCHANGED <<pc, filename, episode_info, custom_template,
                   rename_template, custom_channel, result, filenames,
                   detectors, user_settings,
                   text, max_length, fs>>

UpdateFileProgress(completed) ==
    /\ tracker.processed_files < MaxFiles
    /\ LET call == update_file_progress(tracker, completed)
       IN  /\ tracker' = call.tracker
           /\ history' = IF call.sent
                         THEN Append(history,
                                     Update("update_file_progress",
                                            call.tracker))
                         ELSE history
    /\ UNCHANGED <<pc, filename, episode_info, custom_template,
                   rename_template, custom_channel, result, filenames,
                   detectors, user_settings,
                   text, max_length, fs>>

\* One round of the loop of _periodic_update after its sleep.
PeriodicUpdate ==
    /\ Updates < MaxUpdates
    /\ tracker.update_task = "running"
    /\ tracker.is_active
    /\ history' = Append(history, Update("_periodic_update", tracker))
    /\ UNCHANGED <<pc, filename, episode_info, custom_template,
                   rename_template, custom_channel, result, filenames,
                   detectors, user_settings, tracker,
                   text, max_length, fs>>

\* ProgressTracker.pause
Pause ==
    /\ tracker' = stop(tracker)
    /\ UNCHANGED <<pc, filename, episode_info, custom_template,
                   rename_template, custom_channel, result, filenames,
                   detectors, user_settings, history,
                   text, max_length, fs>>

\* ProgressTracker.finish
Finish ==
    /\ tracker.is_active
    /\ tracker' = stop(tracker)
    /\ UNCHANGED <<pc, filename, episode_info, custom_template,
                   rename_template, custom_channel, result, filenames,
                   detectors, user_settings, history,
                   text, max_length, fs>>

Resume ==
    /\ tracker' = resume(tracker)
    /\ UNCHANGED <<pc, filename, episode_info, custom_template,
                   rename_template, custom_channel, result, filenames,
                   detectors, user_settings, history,
                   text, max_length, fs>>

NextTracker ==
    \/ Start
    \/ \E completed \in BOOLEAN : UpdateFileProgress(completed)
    \/ PeriodicUpdate
    \/ Pause
    \/ Finish
    \/ Resume

SpecTracker == InitTracker /\ [][NextTracker]_vars

-----------------------------------------------------------------------------
(* Properties of the status updates.                                       *)

\* The position of the last call of start in history, 0 before the first.
LastStart ==
    LET starts == {n \in DOMAIN history : history[n].op = "start"}
    IN  IF starts = {} THEN 0
        ELSE CHOOSE n \in starts : \A m \in starts : m <= n

\* The numbers of processed files shown by the updates that
\* update_file_progress has sent since the last call of start, in order.
FileUpdates ==
    SelectSeq(SubSeq(history, LastStart + 1, Len(history)),
              LAMBDA u : u.sender = "update_file_progress")

\* C19: while a ProgressTracker with an update callback is active, a status
\* update is sent through the callback after every STATUS_UPDATE_FILES
\* completed files: update_file_progress sends one exactly when a completed
\* file brings files_since_update to the threshold, and resets the counter
\* to 0, so that the counter stays below the threshold.
C19_UpdateEveryNFiles ==
    tracker.update_callback =>
        /\ tracker.files_since_update < STATUS_UPDATE_FILES
        /\ tracker.files_since_update =
               tracker.processed_files % STATUS_UPDATE_FILES
        /\ Len(FileUpdates) = tracker.processed_files \div STATUS_UPDATE_FILES
        /\ \A k \in 1..Len(FileUpdates) :
               FileUpdates[k].processed_files = k * STATUS_UPDATE_FILES

\* C19 witness: an active tracker with a callback has counted eight
\* completed files since its start, has sent the updates of the fourth and
\* of the eighth file, a periodic update in between, and counts from 0
\* again.
C19_Witness ==
    /\ tracker.update_callback
    /\ tracker.is_active
    /\ tracker.processed_files = 2 * STATUS_UPDATE_FILES
    /\ tracker.files_since_update = 0
    /\ Len(history) = 4
    /\ history[1].op = "start"
    /\ history[2].sender = "update_file_progress"
    /\ history[2].processed_files = STATUS_UPDATE_FILES
    /\ history[3].sender = "_periodic_update"
    /\ history[4].sender = "update_file_progress"
    /\ history[4].processed_files = 2 * STATUS_UPDATE_FILES

-----------------------------------------------------------------------------
(* FileHandler.detect_episode_number.  Its patterns are searched without   *)
(* re.IGNORECASE.                                                          *)

patterns == <<
    <<Set({"E", "e"}), Group>>,
    <<Set({"E", "e"})>> \o Lits(<<"p", "i", "s", "o", "d", "e">>) \o <<Ws, Group>>,
    <<Set({"S", "s"}), DigitsElem, Set({"E", "e"}), Group>>,
    <<Or(<< <<Bos>>, <<Space>> >>), Group, Or(<< <<Space>>, <<Eos>> >>)>>,
    <<Lit("["), Group, Lit("]")>>,
    <<Lit("-"), Ws, Group>> >>

\* for pattern in pats[p..]: the first pattern found in name returns the
\* number of its group; None when no pattern is found.
RECURSIVE NumberLoop(_, _, _)
NumberLoop(pats, name, p) ==
    IF p > Len(pats) THEN None
    ELSE LET match == search(pats[p], name, FALSE)
         IN  IF match # <<>> THEN Some(int(match[1].groups[1]))
             ELSE NumberLoop(pats, name, p + 1)

\* The loop run over the pattern list from its last pattern to its first.
detect_episode_number_Reversed(name) == NumberLoop(Reverse(patterns), name, 1)

detect_episode_number(name) == NumberLoop(patterns, name, 1)

-----------------------------------------------------------------------------
(* Specification SpecNumber: one call of detect_episode_number.            *)

NumberPieces == {
    <<"E">>, <<"e">>, <<"s">>, <<"p", "i", "s", "o", "d", "e">>, <<" ">>, <<"-">>, <<"[">>, <<"]">>, <<"0">>,
    <<"7">>, <<"a">>, <<".">>, <<"s", "0", "1", "e", "0", "5">>, <<"[", "0", "2", "]">>, <<"-", " ", "0", "3">>, <<"E", "p", "i", "s", "o", "d", "e", " ", "1", "2">> }

NumberExamples == {
    <<"a", "n", "i", "m", "e", "_", "s", "0", "1", "e", "0", "5", "_", "4", "8", "0", "p", ".", "m", "p", "4">>, <<"[", "0", "2", "]", " ", "T", "i", "t", "l", "e", " ", "N", "a", "m", "e", ".", "m", "k", "v">>,
    <<"S", "e", "r", "i", "e", "s", " ", "-", " ", "0", "3", " ", "-", " ", "T", "i", "t", "l", "e", ".", "a", "v", "i">>, <<"N", "o", "E", "p", "i", "s", "o", "d", "e", ".", "m", "k", "v">> }

NumberNames ==
    NumberExamples
        \cup {Concat(ps) : ps \in PieceSeqs(NumberPieces, MaxNumberPieces)}

InitNumber ==
    /\ pc = "call"
    /\ filename \in NumberNames
    /\ episode_info = Unused
    /\ custom_template = Unused
    /\ rename_template = Unused
    /\ custom_channel = Unused
    /\ result = Unused
    /\ filenames = Unused
    /\ detectors = Unused
    /\ user_settings = Unused
    /\ tracker = Unused
    /\ history = Unused
    /\ text = Unused
    /\ max_length = Unused
    /\ fs = Unused

DetectEpisodeNumber ==
    /\ pc = "call"
    /\ result' = detect_episode_number(filename)
    /\ pc' = "done"
    /\ UNCHANGED <<filename, episode_info, custom_template, rename_template,
                   custom_channel, filenames, detectors, user_settings,
                   tracker, history, text, max_length, fs>>

NextNumber == DetectEpisodeNumber

SpecNumber == InitNumber /\ [][NextNumber]_vars

-----------------------------------------------------------------------------
(* Properties of detect_episode_number.                                    *)

\* Pattern p of detect_episode_number matches s at position i; it matches
\* somewhere in s.
NumberMatchAt(p, s, i) == MatchAt(patterns[p], FALSE, 1, s, i, <<>>)
NumberMatchesAt(p, s, i) == NumberMatchAt(p, s, i) # <<>>
NumberMatches(p, s) == \E i \in 1..Len(s) : NumberMatchesAt(p, s, i)

\* C20: detect_episode_number returns the integer captured by the first
\* pattern, in list order, that matches the filename (taken at that
\* pattern's leftmost match), and None exactly when no pattern matches, as
\* for every filename without digits; the four example filenames give 5, 2,
\* 3 and None.
C20_FirstNumberPattern ==
    pc = "done" =>
        /\ \A p \in 1..Len(patterns) :
               (NumberMatches(p, filename)
                /\ \A q \in 1..(p - 1) : ~NumberMatches(q, filename)) =>
                   \E i \in 1..Len(filename) :
                       /\ NumberMatchesAt(p, filename, i)
                       /\ \A h \in 1..(i - 1) : ~NumberMatchesAt(p, filename, h)
                       /\ result =
                            Some(Decimal(NumberMatchAt(p, filename, i)[1]
                                             .groups[1]))
        /\ result = None <=>
               \A p \in 1..Len(patterns) : ~NumberMatches(p, filename)
        /\ ~HasDigit(filename) => result = None
        /\ filename = <<"a", "n", "i", "m", "e", "_", "s", "0", "1", "e", "0", "5", "_", "4", "8", "0", "p", ".", "m", "p", "4">> => result = Some(5)
        /\ filename = <<"[", "0", "2", "]", " ", "T", "i", "t", "l", "e", " ", "N", "a", "m", "e", ".", "m", "k", "v">> => result = Some(2)
        /\ filename = <<"S", "e", "r", "i", "e", "s", " ", "-", " ", "0", "3", " ", "-", " ", "T", "i", "t", "l", "e", ".", "a", "v", "i">> => result = Some(3)
        /\ filename = <<"N", "o", "E", "p", "i", "s", "o", "d", "e", ".", "m", "k", "v">> => result = None

\* C20 witness: the winning pattern matches later in the name than a
\* pattern further down the list does, and the number returned is not the
\* one of that other pattern.
C20_Witness ==
    /\ pc = "done"
    /\ \E p \in 1..Len(patterns) :
         /\ NumberMatches(p, filename)
         /\ \A q \in 1..(p - 1) : ~NumberMatches(q, filename)
         /\ \E q \in (p + 1)..Len(patterns) :
              \E i \in 1..Len(filename) :
                /\ NumberMatchesAt(q, filename, i)
                /\ \A h \in 1..i : ~NumberMatchesAt(p, filename, h)
                /\ result # Some(Decimal(NumberMatchAt(q, filename, i)[1]
                                             .groups[1]))

-----------------------------------------------------------------------------
(* utils.split_message                                                     *)

\* text.split(sep) for a one-character separator: the pieces between the
\* separators, empty pieces included.
RECURSIVE SplitFrom(_, _, _)
SplitFrom(s, sep, piece) ==
    IF s = <<>> THEN <<piece>>
    ELSE IF s[1] = sep THEN <<piece>> \o SplitFrom(Tail(s), sep, <<>>)
    ELSE SplitFrom(Tail(s), sep, Append(piece, s[1]))

split(s, sep) == SplitFrom(s, sep, <<>>)

\* The loop over the lines: a line joins the current chunk when it fits with
\* its newline, otherwise the current chunk is closed and the line starts the
\* next one, whatever the line's length.
RECURSIVE SplitLoop(_, _, _, _)
SplitLoop(lines, limit, chunks, current_chunk) ==
    IF lines = <<>>
    THEN IF current_chunk # <<>>
         THEN Append(chunks, rstrip(current_chunk))
         ELSE chunks
    ELSE LET line == lines[1] IN
         IF Len(current_chunk) + Len(line) + 1 <= limit
         THEN SplitLoop(Tail(lines), limit, chunks,
                        current_chunk \o line \o <<"\n">>)
         ELSE SplitLoop(Tail(lines), limit,
                        IF current_chunk # <<>>
                        THEN Append(chunks, rstrip(current_chunk))
                        ELSE chunks,
                        line \o <<"\n">>)

split_message(s, limit) ==
    IF Len(s) <= limit THEN <<s>>
    ELSE SplitLoop(split(s, "\n"), limit, <<>>, <<>>)

-----------------------------------------------------------------------------
(* Specification SpecSplit: one call of split_message.                     *)

TextChars == {"a", " ", "\n"}

Texts == PieceSeqs(TextChars, MaxTextLen)

InitSplit ==
    /\ pc = "call"
    /\ text \in Texts
    /\ max_length \in 1..MaxChunkLen
    /\ result = <<>>
    /\ filename = Unused
    /\ episode_info = Unused
    /\ custom_template = Unused
    /\ rename_template = Unused
    /\ custom_channel = Unused
    /\ filenames = Unused
    /\ detectors = Unused
    /\ user_settings = Unused
    /\ tracker = Unused
    /\ history = Unused
    /\ fs = Unused

SplitMessage ==
    /\ pc = "call"
    /\ result' = split_message(text, max_length)
    /\ pc' = "done"
    /\ UNCHANGED <<filename, episode_info, custom_template, rename_template,
                   custom_channel, filenames, detectors, user_settings,
                   tracker, history, text, max_length, fs>>

NextSplit == SplitMessage

SpecSplit == InitSplit /\ [][NextSplit]_vars

\* C21: every chunk split_message returns is at most max_length characters
\* long, whatever the text, a single line longer than max_length included.
C21_ChunksWithinMaxLength ==
    pc = "done" => \A k \in 1..Len(result) : Len(result[k]) <= max_length

-----------------------------------------------------------------------------
(* file_handler.FileHandler.rename_with_episode                            *)
(* The files of one directory: fs maps the name of each existing file to    *)
(* what it holds.  original_path.parent is that directory throughout.       *)

\* f'{episode_num:02d}' of an episode number >= 0.
Format02d(n) == zfill(str(n), 2)

\* The name tried after counter collisions: the counter goes before the last
\* dot of new_name, or at the end when new_name has no dot.
WithCounter(new_name, counter) ==
    LET dot == rfind(new_name, ".")
    IN  IF dot # 0
        THEN SubSeq(new_name, 1, dot - 1) \o <<"_">> \o str(counter)
                 \o <<".">> \o SubSeq(new_name, dot + 1, Len(new_name))
        ELSE new_name \o <<"_">> \o str(counter)

\* A search that takes the first name whether it exists or not.
FreePath_NoCheck(files, new_name, new_path, counter) == new_name

\* while new_path.exists(): the first of new_name, new_name with _1, _2, ...
\* that no existing file has.
RECURSIVE FreePath(_, _, _, _)
FreePath(files, new_name, new_path, counter) ==
    IF new_path \in DOMAIN files
    THEN FreePath(files, new_name, WithCounter(new_name, counter), counter + 1)
    ELSE new_path

\* original_path.rename(new_path) on a POSIX file system: the file leaves its
\* old name and takes the new one, replacing what was there.
Rename(files, old, new) ==
    [p \in (DOMAIN files \ {old}) \cup {new} |->
        IF p = new THEN files[old] ELSE files[p]]

\* The whole call: [fs, ret].  Renaming a file that does not exist raises
\* inside the try, and the call returns None.
rename_with_episode(files, file_path, new_name_pattern, episode_num) ==
    LET detected == IF episode_num = None
                    THEN detect_episode_number(file_path)
                    ELSE episode_num
        new_name == IF detected # None
                    THEN replace(new_name_pattern, <<"{", "E", "p", "i", "s", "o", "d", "e", "}">>,
                                 Format02d(detected[1]))
                    ELSE replace(new_name_pattern, <<"{", "E", "p", "i", "s", "o", "d", "e", "}">>, <<"0", "1">>)
        new_path == FreePath(files, new_name, new_name, 1)
    IN  IF file_path \in DOMAIN files
        THEN [fs |-> Rename(files, file_path, new_path), ret |-> Some(new_path)]
        ELSE [fs |-> files, ret |-> None]

-----------------------------------------------------------------------------
(* Specification SpecRename: calls of rename_with_episode on the files      *)
(* extracted into one directory.                                            *)

ExtractedNames == {<<"e", "1", ".", "m", "k", "v">>, <<"E", "0", "1", ".", "m", "k", "v">>, <<"x", ".", "m", "k", "v">>}

MissingName == <<"g", "o", "n", "e", ".", "m", "k", "v">>

NamePatterns == {<<"E", "{", "E", "p", "i", "s", "o", "d", "e", "}", ".", "m", "k", "v">>, <<"x">>}

EpisodeNums == {None, Some(2)}

InitRename ==
    /\ pc = "idle"
    /\ \E names \in (SUBSET ExtractedNames) \ {{}} : fs = [n \in names |-> n]
    /\ history = <<>>
    /\ filename = Unused
    /\ episode_info = Unused
    /\ custom_template = Unused
    /\ rename_template = Unused
    /\ custom_channel = Unused
    /\ result = Unused
    /\ filenames = Unused
    /\ detectors = Unused
    /\ user_settings = Unused
    /\ tracker = Unused
    /\ text = Unused
    /\ max_length = Unused

RenameWithEpisode ==
    /\ Len(history) < MaxRenames
    /\ \E file_path \in DOMAIN fs \cup {MissingName},
          new_name_pattern \in NamePatterns, episode_num \in EpisodeNums :
          LET r == rename_with_episode(fs, file_path, new_name_pattern,
                                       episode_num)
          IN  /\ fs' = r.fs
              /\ history' = Append(history,
                     [file_path |-> file_path,
                      new_name_pattern |-> new_name_pattern,
                      episode_num |-> episode_num,
                      before |-> fs,
                      ret |-> r.ret])
    /\ UNCHANGED <<pc, filename, episode_info, custom_template,
                   rename_template, custom_channel, result, filenames,
                   detectors, user_settings, tracker, text, max_length>>

NextRename == RenameWithEpisode

SpecRename == InitRename /\ [][NextRename]_vars

-----------------------------------------------------------------------------
(* Properties of rename_with_episode.                                       *)

\* What the files looked like after call n.
AfterCall(n) == IF n = Len(history) THEN fs ELSE history[n + 1].before

\* The names new_name, new_name with _1, new_name with _2, ...: position k
\* of the search (k = 0 is new_name itself).
Candidate(new_name, k) ==
    IF k = 0 THEN new_name
    ELSE LET dots == {d \in 1..Len(new_name) : new_name[d] = "."}
         IN  IF dots = {}
             THEN new_name \o <<"_">> \o str(k)
             ELSE LET last == CHOOSE d \in dots : \A e \in dots : e <= d
                  IN  SubSeq(new_name, 1, last - 1) \o <<"_">> \o str(k)
                          \o SubSeq(new_name, last, Len(new_name))

\* The name the pattern gives for call n.
NewNameOf(n) ==
    LET c == history[n]
        num == IF c.episode_num # None THEN c.episode_num
               ELSE detect_episode_number(c.file_path)
    IN  replace(c.new_name_pattern, <<"{", "E", "p", "i", "s", "o", "d", "e", "}">>,
                IF num = None THEN <<"0", "1">> ELSE Format02d(num[1]))

\* C22: rename_with_episode never renames onto an existing path.  The path
\* it takes is the first of new_name, new_name_1, new_name_2, ... (the
\* counter before the last dot) that no file has; the renamed file keeps its
\* content, every other file stays where it was, and so no file is
\* overwritten and all files keep distinct paths.
C22_NeverOverwrites ==
    \A n \in 1..Len(history) :
        LET c == history[n]
            after == AfterCall(n)
        IN  IF c.ret = None
            THEN after = c.before
            ELSE LET new_path == c.ret[1] IN
                 /\ new_path \notin DOMAIN c.before
                 /\ \E k \in 0..Cardinality(DOMAIN c.before) :
                        /\ new_path = Candidate(NewNameOf(n), k)
                        /\ \A j \in 0..(k - 1) :
                               Candidate(NewNameOf(n), j) \in DOMAIN c.before
                 /\ DOMAIN after = (DOMAIN c.before \ {c.file_path})
                                       \cup {new_path}
                 /\ after[new_path] = c.before[c.file_path]
                 /\ \A p \in DOMAIN c.before \ {c.file_path} :
                        after[p] = c.before[p]

\* Two files were renamed onto a name that a third file already had: the
\* second of them got the counter 2.
C22_Witness ==
    \E n \in 1..Len(history) :
        /\ history[n].ret = Some(<<"E", "0", "1", "_", "2", ".", "m", "k", "v">>)
        /\ <<"E", "0", "1", ".", "m", "k", "v">> \in DOMAIN fs
        /\ <<"E", "0", "1", "_", "1", ".", "m", "k", "v">> \in DOMAIN fs

-----------------------------------------------------------------------------
(* Specification SpecQuality: one call of _extract_quality.                *)

QualityTokens == {
    <<"7", "2", "0", "p">>, <<"1", "0", "8", "0", "p">>, <<"1", "4", "4", "0", "p">>, <<"2", "1", "6", "0", "p">>, <<"4", "K">>, <<"8", "K">>,
    <<"H", "D">>, <<"F", "H", "D">>, <<"U", "H", "D">>, <<"S", "D">>,
    <<"W", "E", "B", "-", "D", "L">>, <<"B", "l", "u", "R", "a", "y">>, <<"B", "R", "R", "i", "p">>, <<"D", "V", "D", "R", "i", "p">>, <<"H", "D", "T", "V">>, <<"W", "E", "B", "R", "i", "p">> }

QualityPieces == {
    <<"7", "2", "0", "p">>, <<"4", "k">>, <<"h", "d">>, <<"U", "H", "D">>, <<"H", "D", "T", "V">>, <<"W", "E", "B", "-", "D", "L">>, <<"s", "d">>,
    <<"7", "2", "0">>, <<"1", "0", "8", "0">>, <<"2", "1", "6", "0">>, <<"x">>, <<" ">> }

QualityNames ==
    QualityTokens
        \cup {Concat(ps) : ps \in PieceSeqs(QualityPieces, MaxQualityPieces)}

InitQuality ==
    /\ pc = "call"
    /\ filename \in QualityNames
    /\ result = <<>>
    /\ episode_info = Unused
    /\ custom_template = Unused
    /\ rename_template = Unused
    /\ custom_channel = Unused
    /\ filenames = Unused
    /\ detectors = Unused
    /\ user_settings = Unused
    /\ tracker = Unused
    /\ history = Unused
    /\ text = Unused
    /\ max_length = Unused
    /\ fs = Unused

ExtractQuality ==
    /\ pc = "call"
    /\ result' = _extract_quality(filename)
    /\ pc' = "done"
    /\ UNCHANGED <<filename, episode_info, custom_template, rename_template,
                   custom_channel, filenames, detectors, user_settings,
                   tracker, history, text, max_length, fs>>

NextQuality == ExtractQuality

SpecQuality == InitQuality /\ [][NextQuality]_vars

-----------------------------------------------------------------------------
(* Properties of _extract_quality.                                          *)

\* The words of the three quality patterns, in the order of the list and of
\* each alternation.
QualityWords == <<
    <<<<"7", "2", "0", "p">>, <<"1", "0", "8", "0", "p">>, <<"1", "4", "4", "0", "p">>, <<"2", "1", "6", "0", "p">>, <<"4", "K">>, <<"8", "K">>>>,
    <<<<"H", "D">>, <<"F", "H", "D">>, <<"U", "H", "D">>, <<"S", "D">>>>,
    <<<<"W", "E", "B", "-", "D", "L">>, <<"B", "l", "u", "R", "a", "y">>, <<"B", "R", "R", "i", "p">>, <<"D", "V", "D", "R", "i", "p">>, <<"H", "D", "T", "V">>, <<"W", "E", "B", "R", "i", "p">>>> >>

\* The word w stands at position k of name, letter case ignored.
OccursAt(name, w, k) ==
    /\ k >= 1
    /\ k + Len(w) - 1 <= Len(name)
    /\ lower(SubSeq(name, k, k + Len(w) - 1)) = lower(w)

\* Positions of name at which a word of pattern p stands.
FoundAt(name, p) ==
    {k \in 1..Len(name) :
        \E n \in 1..Len(QualityWords[p]) : OccursAt(name, QualityWords[p][n], k)}

\* What the search of pattern p matches in name: at the leftmost position a
\* word of the pattern stands at, the first word of the alternation that
\* stands there.
FoundText(name, p) ==
    LET k == CHOOSE k \in FoundAt(name, p) : \A m \in FoundAt(name, p) : k <= m
        here == {n \in 1..Len(QualityWords[p]) :
                    OccursAt(name, QualityWords[p][n], k)}
        n == CHOOSE n \in here : \A m \in here : n <= m
    IN  SubSeq(name, k, k + Len(QualityWords[p][n]) - 1)

\* C23: _extract_quality returns the upper-cased text found by the first of
\* the three quality patterns, in list order and ignoring letter case, that
\* occurs in the name (the order of the patterns decides, not the position in
\* the name); when none occurs it returns "720p" for a name containing 720,
\* else "1080p" for one containing 1080, else "4K" for one containing 2160
\* or 4K, else "Unknown".
C23_QualityByPatternOrder ==
    pc = "done" =>
        LET found == {p \in 1..3 : FoundAt(filename, p) # {}}
        IN  IF found # {}
            THEN result = upper(FoundText(filename,
                              CHOOSE p \in found : \A q \in found : p <= q))
            ELSE IF Contains(filename, <<"7", "2", "0">>) THEN result = <<"7", "2", "0", "p">>
            ELSE IF Contains(filename, <<"1", "0", "8", "0">>) THEN result = <<"1", "0", "8", "0", "p">>
            ELSE IF Contains(filename, <<"2", "1", "6", "0">>)
                        \/ Contains(lower(filename), <<"4", "k">>)
                 THEN result = <<"4", "K">>
            ELSE result = <<"U", "n", "k", "n", "o", "w", "n">>

\* A word of the second pattern stands before the word of the first pattern
\* that is returned.
C23_Witness ==
    /\ pc = "done"
    /\ filename = <<"h", "d", "7", "2", "0", "p">>
    /\ result = <<"7", "2", "0", "P">>

\* C30 as stated: _extract_quality never returns "HDTV": for a name that
\* contains HDTV the result is "HD" or a word of the first pattern; every
\* other word of the three patterns is returned, upper-cased, for some name
\* (for the word itself).
C30_HDTVGivesHD ==
    pc = "done" =>
        /\ result # <<"H", "D", "T", "V">>
        /\ Contains(lower(filename), <<"h", "d", "t", "v">>) =>
               \/ result = <<"H", "D">>
               \/ \E n \in 1..Len(QualityWords[1]) :
                      result = upper(QualityWords[1][n])
        /\ filename \in QualityTokens \ {<<"H", "D", "T", "V">>} => result = upper(filename)

\* C30, amended: _extract_quality never returns "HDTV": for a name that
\* contains HDTV the result is a word of the first pattern, or the word of
\* the second pattern (HD, FHD, UHD or SD) that stands leftmost in the name;
\* every other word of the three patterns is returned, upper-cased, for some
\* name (for the word itself).
C30_NeverHDTV ==
    pc = "done" =>
        /\ result # <<"H", "D", "T", "V">>
        /\ Contains(lower(filename), <<"h", "d", "t", "v">>) =>
               \/ \E n \in 1..Len(QualityWords[1]) :
                      result = upper(QualityWords[1][n])
               \/ /\ FoundAt(filename, 1) = {}
                  /\ result = upper(FoundText(filename, 2))
        /\ filename \in QualityTokens \ {<<"H", "D", "T", "V">>} => result = upper(filename)

\* A name with SD before HDTV gives "SD".
C30_Witness ==
    /\ pc = "done"
    /\ filename = <<"s", "d", "H", "D", "T", "V">>
    /\ result = <<"S", "D">>

-----------------------------------------------------------------------------
(* Specification SpecShowName: one call of _extract_show_name on a name     *)
(* whose extension detect_episode_info has already removed.                 *)

ShowNamePieces == {<<"S", "h", "o", "w">>, <<"a">>, <<" ">>, <<".">>, <<"S", "0", "1", "E", "0", "2">>, <<"7", "2", "0", "p">>, <<"x", "2", "6", "4">>}

ShowNames == {Concat(ps) : ps \in PieceSeqs(ShowNamePieces, MaxShowPieces)}

InitShowName ==
    /\ pc = "call"
    /\ filename \in ShowNames
    /\ result = <<>>
    /\ episode_info = Unused
    /\ custom_template = Unused
    /\ rename_template = Unused
    /\ custom_channel = Unused
    /\ filenames = Unused
    /\ detectors = Unused
    /\ user_settings = Unused
    /\ tracker = Unused
    /\ history = Unused
    /\ text = Unused
    /\ max_length = Unused
    /\ fs = Unused

ExtractShowName ==
    /\ pc = "call"
    /\ result' = _extract_show_name(filename)
    /\ pc' = "done"
    /\ UNCHANGED <<filename, episode_info, custom_template, rename_template,
                   custom_channel, filenames, detectors, user_settings,
                   tracker, history, text, max_length, fs>>

NextShowName == ExtractShowName

SpecShowName == InitShowName /\ [][NextShowName]_vars

\* C24: when fewer than 2 characters are left of the name after the
\* patterns, separators and release tags are removed, _extract_show_name
\* returns the title-cased form of the whole name it was given, with no
\* further part of it removed.
C24_FallbackVerbatim ==
    (pc = "done" /\ Len(StrippedName(filename)) < 2) =>
        result = title(filename)

-----------------------------------------------------------------------------
(* Specification SpecTokens: one call of generate_new_filename with         *)
(* templates that hold misspelt tokens and repeated placeholders, and with  *)
(* a show name or channel that holds the text of a placeholder.             *)

TokenPieces == {
    <<"{", "S", "e", "a", "s", "o", "n", "}">>, <<"{", "S", "h", "o", "w", "N", "a", "m", "e", "}">>, <<"{", "C", "h", "a", "n", "n", "e", "l", "}">>, <<".", "{", "E", "x", "t", "e", "n", "s", "i", "o", "n", "}">>,
    <<"{", "S", "e", "a", "s", "o", "}">>, <<"{", "s", "e", "a", "s", "o", "n", "}">>, <<"{">>, <<"x">> }

TokenTemplates ==
    {Concat(ps) : ps \in PieceSeqs(TokenPieces, MaxTokenPieces)} \ {<<>>}

TokenShowNames == {<<"D", "e", "m", "o">>, <<"{", "S", "e", "a", "s", "o", "n", "}">>, <<"{", "Q", "u", "a", "l", "i", "t", "y", "}">>}

TokenChannels == {<<>>, <<"{", "S", "h", "o", "w", "N", "a", "m", "e", "}">>, <<"{", "E", "x", "t", "e", "n", "s", "i", "o", "n", "}">>}

InitTokens ==
    /\ pc = "call"
    /\ \E show_name \in TokenShowNames :
           episode_info = EpisodeInfo(Some(2), None, show_name, <<>>, <<>>,
                                      <<".", "m", "k", "v">>)
    /\ \E template \in TokenTemplates : custom_template = Some(template)
    /\ rename_template = DEFAULT_RENAME_TEMPLATE
    /\ custom_channel \in TokenChannels
    /\ result = <<>>
    /\ filename = Unused
    /\ filenames = Unused
    /\ detectors = Unused
    /\ user_settings = Unused
    /\ tracker = Unused
    /\ history = Unused
    /\ text = Unused
    /\ max_length = Unused
    /\ fs = Unused

GenerateFromTemplate ==
    /\ pc = "call"
    /\ result' = generate_new_filename(episode_info, custom_template,
                                       rename_template, custom_channel)
    /\ pc' = "done"
    /\ UNCHANGED <<filename, episode_info, custom_template, rename_template,
                   custom_channel, filenames, detectors, user_settings,
                   tracker, history, text, max_length, fs>>

NextTokens == GenerateFromTemplate

SpecTokens == InitTokens /\ [][NextTokens]_vars

-----------------------------------------------------------------------------
(* Properties of the substitution.                                          *)

\* The seven placeholder keys, in the order of the replacements dict.
PlaceholderKeys == <<<<"S", "e", "a", "s", "o", "n">>, <<"E", "p", "i", "s", "o", "d", "e">>, <<"S", "h", "o", "w", "N", "a", "m", "e">>, <<"Q", "u", "a", "l", "i", "t", "y">>,
                     <<"A", "u", "d", "i", "o">>, <<"C", "h", "a", "n", "n", "e", "l">>, <<"E", "x", "t", "e", "n", "s", "i", "o", "n">>>>

Token(key) == <<"{">> \o key \o <<"}">>

\* The value the call substitutes for a key.
ValueOf(key) ==
    LET repl == replacements(episode_info, custom_channel)
    IN  repl[CHOOSE n \in 1..Len(repl) : repl[n][1] = key][2]

\* How often t occurs in s.
Count(s, t) ==
    Cardinality({k \in 1..(Len(s) - Len(t) + 1) :
                    SubSeq(s, k, k + Len(t) - 1) = t})

\* Whether one of the seven placeholders stands at position k of s, and
\* which.
KeysAt(s, k) ==
    {n \in 1..7 : k + Len(Token(PlaceholderKeys[n])) - 1 <= Len(s)
                  /\ SubSeq(s, k, k + Len(Token(PlaceholderKeys[n])) - 1)
                         = Token(PlaceholderKeys[n])}

\* s read once from position k on: each placeholder gives its value, every
\* other character stays.
RECURSIVE Expand(_, _)
Expand(s, k) ==
    IF k > Len(s) THEN <<>>
    ELSE IF KeysAt(s, k) # {}
         THEN LET key == PlaceholderKeys[CHOOSE n \in KeysAt(s, k) : TRUE]
              IN  ValueOf(key) \o Expand(s, k + Len(Token(key)))
         ELSE <<s[k]>> \o Expand(s, k + 1)

\* The template the substitution starts from: without a final .{Extension}.
TemplateBody ==
    LET template == custom_template[1]
        suffix == <<".", "{", "E", "x", "t", "e", "n", "s", "i", "o", "n", "}">>
    IN  IF Len(template) >= Len(suffix)
           /\ SubSeq(template, Len(template) - Len(suffix) + 1, Len(template))
                  = suffix
        THEN SubSeq(template, 1, Len(template) - Len(suffix))
        ELSE template

MisspeltTokens == {<<"{", "S", "e", "a", "s", "o", "}">>, <<"{", "s", "e", "a", "s", "o", "n", "}">>}

\* No substituted value holds a brace.
PlainValues ==
    \A n \in 1..7 : \A k \in 1..Len(ValueOf(PlaceholderKeys[n])) :
        ValueOf(PlaceholderKeys[n])[k] \notin {"{", "}"}

\* C25: a brace token that is not one of the seven exact placeholders (such
\* as the misspelt {Seaso}) is in the output as often as in the template,
\* unchanged, while every occurrence of each of the seven placeholders in
\* the template is replaced by its value (here for values without braces):
\* the output is the template read once with each placeholder replaced, plus
\* the extension.
C25_OnlyExactPlaceholders ==
    (pc = "done" /\ PlainValues) =>
        /\ \A t \in MisspeltTokens : Count(result, t) = Count(TemplateBody, t)
        /\ \A n \in 1..7 : Count(result, Token(PlaceholderKeys[n])) = 0
        /\ result = strip(Expand(TemplateBody, 1) \o ValueOf(<<"E", "x", "t", "e", "n", "s", "i", "o", "n">>))

\* A template with a misspelt token and the same placeholder twice.
C25_Witness ==
    /\ pc = "done"
    /\ PlainValues
    /\ \/ custom_template = Some(<<"{", "S", "e", "a", "s", "o", "}", "{", "S", "e", "a", "s", "o", "n", "}">>)
          /\ result = <<"{", "S", "e", "a", "s", "o", "}", "0", "2", ".", "m", "k", "v">>
       \/ custom_template = Some(<<"{", "S", "e", "a", "s", "o", "n", "}", "{", "S", "e", "a", "s", "o", "n", "}">>)
          /\ result = <<"0", "2", "0", "2", ".", "m", "k", "v">>

\* The placeholders whose value is put into the output of this call and
\* holds the token of placeholder j.
CarriersOf(j) ==
    {i \in 1..7 :
        /\ i # j
        /\ Count(TemplateBody, Token(PlaceholderKeys[i])) > 0
        /\ Count(ValueOf(PlaceholderKeys[i]), Token(PlaceholderKeys[j])) > 0}

\* C26 as stated: a substituted value that holds the token of another
\* placeholder is substituted again, so that token is not in the output (a
\* show name holding {Season} included).
C26_ValueSubstitutedAgain ==
    pc = "done" =>
        \A j \in 1..7 :
            CarriersOf(j) # {} => Count(result, Token(PlaceholderKeys[j])) = 0

\* C26, amended: the substitution takes one key at a time in the order
\* Season, Episode, ShowName, Quality, Audio, Channel, Extension.  A token in
\* a substituted value is substituted again when its key comes later in that
\* order than the key of the value (a show name holding {Quality}, a channel
\* holding {Extension}), and it stays in the output as it is when its key
\* comes earlier (a show name holding {Season}, a channel holding
\* {ShowName}).
C26_LaterKeysSubstitutedAgain ==
    pc = "done" =>
        \A j \in 1..7 :
            /\ (\E i \in CarriersOf(j) : i > j) =>
                   Count(result, Token(PlaceholderKeys[j])) > 0
            /\ (CarriersOf(j) # {} /\ \A i \in CarriersOf(j) : i < j) =>
                   /\ Count(result, Token(PlaceholderKeys[j])) = 0
                   /\ Contains(result, ValueOf(PlaceholderKeys[j]))

\* A show name holding {Season} is substituted for {ShowName} and its token
\* stays; a show name holding {Quality} gives the quality.
C26_Witness ==
    /\ pc = "done"
    /\ custom_template = Some(<<"{", "S", "h", "o", "w", "N", "a", "m", "e", "}", "x">>)
    /\ \/ episode_info.show_name = <<"{", "S", "e", "a", "s", "o", "n", "}">> /\ result = <<"{", "S", "e", "a", "s", "o", "n", "}", "x", ".", "m", "k", "v">>
       \/ episode_info.show_name = <<"{", "Q", "u", "a", "l", "i", "t", "y", "}">> /\ result = <<"U", "n", "k", "n", "o", "w", "n", "x", ".", "m", "k", "v">>

-----------------------------------------------------------------------------
(* FileProcessor.process_zip_file and ZipBot._upload_processed_files: the   *)
(* handling of one ZIP file.  fs maps each file name of the extraction      *)
(* directory to the content the file holds; a content is named by the file  *)
(* it was extracted to.                                                     *)

SUPPORTED_SUBTITLE_FORMATS == {<<".", "s", "r", "t">>, <<".", "a", "s", "s">>, <<".", "v", "t", "t">>, <<".", "s", "u", "b">>}

\* utils.is_media_file
is_media_file(name) ==
    \E x \in SUPPORTED_VIDEO_FORMATS \cup SUPPORTED_AUDIO_FORMATS
                 \cup SUPPORTED_SUBTITLE_FORMATS :
        endswith(lower(name), x)

\* The characters of the names, in the order of their code points.
CodePoints ==
    <<" ", "-", ".", "0", "1", "2", "3", "4", "5", "6", "7", "8", "9", "@", "A", "B", "C", "D", "E", "F", "G", "H", "I", "J", "K", "L", "M", "N", "O", "P", "Q", "R", "S", "T", "U", "V", "W", "X", "Y", "Z", "[", "]", "_", "a", "b", "c", "d", "e", "f", "g", "h", "i", "j", "k", "l", "m", "n", "o", "p", "q", "r", "s", "t", "u", "v", "w", "x", "y", "z">>

ord(c) == CHOOSE n \in 1..Len(CodePoints) : CodePoints[n] = c

\* a < b as Python compares two str.
RECURSIVE StrLess(_, _)
StrLess(a, b) ==
    IF b = <<>> THEN FALSE
    ELSE IF a = <<>> THEN TRUE
    ELSE IF a[1] = b[1] THEN StrLess(Tail(a), Tail(b))
    ELSE ord(a[1]) < ord(b[1])

\* sorted(names)
RECURSIVE sorted(_)
sorted(names) ==
    IF names = {} THEN <<>>
    ELSE LET least == CHOOSE n \in names :
                          \A m \in names \ {n} : StrLess(n, m)
         IN  <<least>> \o sorted(names \ {least})

\* FileProcessor._find_media_files on a directory without subdirectories.
_find_media_files(files) == sorted({n \in DOMAIN files : is_media_file(n)})

\* The bytes of each content.
ContentSize(content) ==
    IF content = <<"S", "h", "o", "w", " ", "S", "0", "1", "E", "0", "2", ".", "m", "k", "v">> THEN 2 ELSE 1

\* os.path.getsize
getsize(files, path) == ContentSize(files[path])

\* ProgressStats(), and the fields start sets.
ProgressStats(total_files, total_size) ==
    [total_files |-> total_files, processed_files |-> 0,
     total_size |-> total_size, processed_size |-> 0]

\* update_file_progress(..., completed) on the statistics of a tracker.
CompletedFile(self, file_size, completed) ==
    IF ~self.is_active \/ ~completed THEN self
    ELSE [self EXCEPT !.stats.processed_files = @ + 1,
                      !.stats.processed_size = @ + file_size]

\* ProcessingResult as process_zip_file creates it.
ProcessingResult ==
    [success |-> FALSE, processed_files |-> <<>>, errors |-> <<>>,
     total_size |-> 0]

\* An error that is logged and not kept.
AddError_Silent(r, error_msg) == r

\* result.errors.append(error_msg)
AddError(r, error_msg) == [r EXCEPT !.errors = Append(@, error_msg)]

\* shutil.move(file_path, new_path) inside one file system: the file leaves
\* its old name and takes the new one, replacing a file that has it.
move(files, file_path, new_path) ==
    [p \in (DOMAIN files \ {file_path}) \cup {new_path} |->
        IF p = new_path THEN files[file_path] ELSE files[p]]

\* FileProcessor._process_media_file on the file name of the extraction
\* directory, from the new filename on: the ProcessedFile it returns and the
\* files after it.
ProcessedFile(files, name, new_filename) ==
    [fs |-> IF new_filename # name
            THEN move(files, name, new_filename)
            ELSE files,
     file |-> [original_path |-> name, new_path |-> new_filename,
               filename |-> name, new_filename |-> new_filename,
               size |-> getsize(files, name),
               file_type |-> file_type(name)]]

-----------------------------------------------------------------------------
(* Specification SpecZip: a ZipBot handles one ZIP file.  filenames holds   *)
(* what the running loop has still to go through, user_settings the         *)
(* settings of the user who sent the ZIP.  What _process_media_file makes   *)
(* of a file name depends on nothing but the name, the user's auto_rename   *)
(* and the outcome of shutil.move; it is worked out once per media file,    *)
(* when the files are found, and kept in episode_info until the loop        *)
(* reaches the file.                                                        *)

ZipNames == {<<"S", "h", "o", "w", " ", "S", "0", "1", "E", "0", "2", ".", "m", "k", "v">>, <<"S", "h", "o", "w", ".", "S", "0", "1", "E", "0", "2", ".", "m", "k", "v">>, <<"n", "o", "t", "e", "s", ".", "s", "r", "t">>,
             <<"r", "e", "a", "d", "m", "e", ".", "t", "x", "t">>}

ZipOutcomes == {"extracted", "BadZipFile", "password"}

InitZip ==
    /\ pc = "idle"
    /\ fs = <<>>
    /\ filenames = <<>>
    /\ result = ProcessingResult
    /\ tracker = [is_active |-> FALSE, stats |-> ProgressStats(0, 0)]
    /\ user_settings \in [auto_rename : BOOLEAN]
    /\ episode_info = <<>>
    /\ filename = Unused
    /\ custom_template = Unused
    /\ rename_template = Unused
    /\ custom_channel = Unused
    /\ detectors = Unused
    /\ history = Unused
    /\ text = Unused
    /\ max_length = Unused

\* process_zip_file up to its loop: the extraction, the search for media
\* files and the start of the tracker.
ExtractZip(members, outcome) ==
    /\ pc = "idle"
    /\ IF outcome = "BadZipFile"
       THEN /\ result' = AddError(ProcessingResult,
                                  <<"I", "n", "v", "a", "l", "i", "d", " ", "o", "r", " ", "c", "o", "r", "r", "u", "p", "t", "e", "d", " ", "Z", "I", "P", " ", "f", "i", "l", "e">>)
            /\ pc' = "returned"
            /\ UNCHANGED <<fs, filenames, tracker, episode_info>>
       ELSE IF outcome = "password"
       THEN /\ result' = AddError(ProcessingResult,
                                  <<"Z", "I", "P", " ", "f", "i", "l", "e", " ", "i", "s", " ", "p", "a", "s", "s", "w", "o", "r", "d", " ", "p", "r", "o", "t", "e", "c", "t", "e", "d">>)
            /\ pc' = "returned"
            /\ UNCHANGED <<fs, filenames, tracker, episode_info>>
       ELSE LET files == [n \in {safe_filename(m) : m \in members} |-> n]
                media_files == _find_media_files(files)
            IN  /\ fs' = files
                /\ IF media_files = <<>>
                   THEN /\ result' = AddError(ProcessingResult,
                                <<"N", "o", " ", "m", "e", "d", "i", "a", " ", "f", "i", "l", "e", "s", " ", "f", "o", "u", "n", "d", " ", "i", "n", " ", "Z", "I", "P", " ", "a", "r", "c", "h", "i", "v", "e">>)
                        /\ pc' = "returned"
                        /\ UNCHANGED <<filenames, tracker, episode_info>>
                   ELSE /\ result' = ProcessingResult
                        /\ filenames' = media_files
                        /\ episode_info' =
                               [name \in {n \in DOMAIN files :
                                               is_media_file(n)},
                                moved \in BOOLEAN |->
                                   _process_media_file(
                                       EpisodeDetector, name,
                                       user_settings.auto_rename, moved)]
                        /\ tracker' =
                               [is_active |-> TRUE,
                                stats |-> ProgressStats(
                                    Len(media_files),
                                    getsize(files, media_files[1])
                                    + (IF Len(media_files) > 1
                                       THEN getsize(files, media_files[2])
                                       ELSE 0)
                                    + (IF Len(media_files) > 2
                                       THEN getsize(files, media_files[3])
                                       ELSE 0))]
                        /\ pc' = "processing"
    /\ UNCHANGED <<filename, custom_template, rename_template,
                   custom_channel, detectors, user_settings, history, text,
                   max_length>>

\* One round of the loop of process_zip_file.  raised tells whether
\* _process_media_file raised, moved whether its shutil.move succeeded.
ProcessMediaFile(raised, moved) ==
    /\ pc = "processing"
    /\ filenames # <<>>
    /\ IF raised
       THEN /\ result' = AddError(result,
                                  <<"E", "r", "r", "o", "r", " ", "p", "r", "o", "c", "e", "s", "s", "i", "n", "g", " ">> \o filenames[1])
            /\ UNCHANGED <<fs, tracker>>
       ELSE LET done == ProcessedFile(fs, filenames[1],
                                      episode_info[filenames[1], moved])
            IN  /\ fs' = done.fs
                /\ result' =
                       [result EXCEPT
                           !.processed_files = Append(@, done.file),
                           !.total_size = @ + done.file.size]
                /\ tracker' = CompletedFile(tracker, done.file.size, TRUE)
    /\ filenames' = Tail(filenames)
    /\ UNCHANGED <<pc, filename, episode_info, custom_template,
                   rename_template, custom_channel, detectors, user_settings,
                   history, text, max_length>>

\* The end of process_zip_file after its loop.
ReturnResult ==
    /\ pc = "processing"
    /\ filenames = <<>>
    /\ result' = [result EXCEPT !.success = Len(result.processed_files) > 0]
    /\ pc' = "returned"
    /\ UNCHANGED <<filename, episode_info, custom_template, rename_template,
                   custom_channel, filenames, detectors, user_settings,
                   tracker, history, text, max_length, fs>>

\* _process_zip_document after process_zip_file: the upload starts when the
\* result is a success.
StartUpload ==
    /\ pc = "returned"
    /\ result.success
    /\ filenames' = result.processed_files
    /\ pc' = "uploading"
    /\ UNCHANGED <<filename, episode_info, custom_template, rename_template,
                   custom_channel, result, detectors, user_settings,
                   tracker, history, text, max_length, fs>>

\* One round of the loop of _upload_processed_files.  sent tells whether
\* Telegram took the file; opening a path that no file has raises.
UploadFile(sent) ==
    /\ pc = "uploading"
    /\ filenames # <<>>
    /\ LET processed_file == filenames[1]
           started == CompletedFile(tracker, processed_file.size, FALSE)
       IN  tracker' = IF processed_file.new_path \in DOMAIN fs /\ sent
                      THEN CompletedFile(started, processed_file.size, TRUE)
                      ELSE started
    /\ filenames' = Tail(filenames)
    /\ UNCHANGED <<pc, filename, episode_info, custom_template,
                   rename_template, custom_channel, result, detectors,
                   user_settings, history, text, max_length, fs>>

\* progress_tracker.finish: at the end of _upload_processed_files, or in the
\* finally of _process_zip_document when the result is no success.
FinishZip ==
    /\ \/ pc = "uploading" /\ filenames = <<>>
       \/ pc = "returned" /\ ~result.success
    /\ tracker' = [tracker EXCEPT !.is_active = FALSE]
    /\ pc' = "finished"
    /\ UNCHANGED <<filename, episode_info, custom_template, rename_template,
                   custom_channel, result, filenames, detectors,
                   user_settings, history, text, max_length, fs>>

NextZip ==
    \/ \E members \in SUBSET ZipNames, outcome \in ZipOutcomes :
           ExtractZip(members, outcome)
    \/ \E raised \in BOOLEAN, moved \in BOOLEAN : ProcessMediaFile(raised, moved)
    \/ ReturnResult
    \/ StartUpload
    \/ \E sent \in BOOLEAN : UploadFile(sent)
    \/ FinishZip

SpecZip == InitZip /\ [][NextZip]_vars

-----------------------------------------------------------------------------
(* Properties of the handling of a ZIP file.                                *)

\* C27: from the start of the tracker in process_zip_file through the
\* completed updates of process_zip_file and of _upload_processed_files,
\* processed_files stays at most total_files and processed_size at most
\* total_size.
C27_ProcessedWithinTotals ==
    /\ tracker.stats.processed_files <= tracker.stats.total_files
    /\ tracker.stats.processed_size <= tracker.stats.total_size

\* C28: when process_zip_file has returned for a user with renaming, the
\* entries of processed_files have pairwise distinct new_path and each
\* new_path holds the content the entry's file was extracted with: no file
\* is overwritten or lost.
C28_RenamedFilesDistinct ==
    (pc = "returned" /\ user_settings.auto_rename) =>
        LET files == result.processed_files
        IN  /\ \A i, j \in 1..Len(files) :
                   i # j => files[i].new_path # files[j].new_path
            /\ \A i \in 1..Len(files) :
                   /\ files[i].new_path \in DOMAIN fs
                   /\ fs[files[i].new_path] = files[i].original_path

RECURSIVE SumSizes(_)
SumSizes(files) ==
    IF files = <<>> THEN 0 ELSE files[1].size + SumSizes(Tail(files))

=============================================================================
